---- MODULE Spec2Model ----
(***************************************************************************)
(* qiankun global-scope isolation sandboxes.                               *)
(*                                                                         *)
(*   ProxySandbox   (src/src/sandbox/proxySandbox.ts)  multiplexed kind    *)
(*   LegacySandbox  (src/src/loader.ts, lines 491-692) diffing kind        *)
(*   running-app registry (src/src/sandbox/common.ts)                      *)
(*                                                                         *)
(* The host global object and every virtual global object (fakeWindow) are *)
(* maps from property keys to property descriptors.  The statements the    *)
(* handlers execute on them (assignment, Object.defineProperty, delete)    *)
(* follow ECMAScript's ordinary-object semantics in strict-mode code (the  *)
(* sources are ES modules).  The invariant checks that the Proxy exotic    *)
(* object applies to a trap's result after the handler has returned are    *)
(* not part of the handlers and are not modelled.                          *)
(***************************************************************************)
EXTENDS Integers, FiniteSets, Sequences, TLC

\* ------------------------------------------------------------------ bounds
\* values an app or the host writes are 1 .. MaxVal (the host starts from 0)
MaxVal == 2
\* at most MaxWrappers bound wrappers are created for one callable
MaxWrappers == 2
\* activeSandboxCount is kept within -MaxCount .. MaxCount by the guards
MaxCount == 2
\* the Deferred objects a run creates at most
MaxDeferred == 2

\* ------------------------------------------------------------- JS values
\* the JavaScript value undefined (the result of reading an absent property)
Undefined == -1
Vals == 1 .. MaxVal
\* object identities: the host global object, another window (the parent of
\* a framed host), and each sandbox's virtual global object (its proxy)
GlobalContextRef == -2
OtherWindowRef == -3
\* the native global object when the sandboxes are built over another
\* global context
NativeGlobalRef == -9
ProxyRef(s) == IF s = "A" THEN -4 ELSE IF s = "B" THEN -5 ELSE IF s = "L" THEN -6 ELSE -8
\* the host's document object
HostDocumentRef == -7
\* function values: two native functions of the host (callable, not bound,
\* no constructors), an already bound function and a constructor
NativeFn == 11
OtherNativeFn == 12
BoundFn == 13
ConstructorFn == 14
Callables == {NativeFn, OtherNativeFn, BoundFn, ConstructorFn}
\* the k-th wrapper Function.prototype.bind.call(value, target) made for value:
\* every call of bind makes a new function object
BoundValue(value, k) == 100 + 10 * value + k

\* ------------------------------------------------------------------- keys
\* useNativeWindowForBindingsProps outside test builds (lines 81-84)
useNativeWindowForBindingsProps == {"fetch"}
\* globalVariableWhiteList outside dev/test builds
globalVariableWhiteList == {"System", "__cjsWrapper"}
\* a string key outside the whitelist, and a symbol key
\* the keys createFakeWindow makes configurable (lines 129-132), and the keys
\* the get trap answers with the proxy (lines 279-294)
UnforgeableKeys == {"top", "parent", "self", "window"}
SelfKeys == UnforgeableKeys \cup {"globalThis"}
\* the keys of the global objects: whitelisted and other string keys, the
\* empty string, and the keys named after the apps
StringKeys ==
    {"System", "__cjsWrapper", "foo", "fetch", "document", "", "app1", "app2"} \cup SelfKeys
SymbolKeys == {"sym"}
Keys == StringKeys \cup SymbolKeys
NoKey == "null"

\* typeof p === 'string'
IsString(p) == p \in StringKeys

\* --------------------------------------------------- property descriptors
\* For an accessor property of the host, value is the state behind its
\* getter: the getter returns it and the setter (hasSet) stores into it.
Absent ==
    [kind |-> "none", value |-> Undefined, writable |-> FALSE,
     configurable |-> FALSE, enumerable |-> FALSE, hasSet |-> FALSE]

DataDesc(v, w, c, e) ==
    [kind |-> "data", value |-> v, writable |-> w,
     configurable |-> c, enumerable |-> e, hasSet |-> FALSE]

AccessorDesc(v, s, c, e) ==
    [kind |-> "accessor", value |-> v, writable |-> FALSE,
     configurable |-> c, enumerable |-> e, hasSet |-> s]

\* obj.hasOwnProperty(p)
HasOwnProperty(obj, p) == obj[p].kind # "none"

\* obj[p] read from an ordinary object (keys are never on the prototype chain)
GetValue(obj, p) == obj[p].value

\* obj[p] = v in strict-mode code: creates a writable, enumerable,
\* configurable data property, stores into a writable one, calls the setter
\* of an accessor, and throws a TypeError otherwise
Assign(obj, p, v) ==
    LET d == obj[p] IN
    CASE d.kind = "none" ->
            [obj |-> [obj EXCEPT ![p] = DataDesc(v, TRUE, TRUE, TRUE)], threw |-> FALSE]
      [] d.kind = "data" /\ d.writable ->
            [obj |-> [obj EXCEPT ![p].value = v], threw |-> FALSE]
      [] d.kind = "accessor" /\ d.hasSet ->
            [obj |-> [obj EXCEPT ![p].value = v], threw |-> FALSE]
      [] OTHER ->
            [obj |-> obj, threw |-> TRUE]

\* ValidateAndApplyPropertyDescriptor for a complete descriptor d
DefineAllowed(cur, d) ==
    \/ cur.kind = "none"
    \/ cur.configurable
    \/ /\ ~d.configurable
       /\ d.enumerable = cur.enumerable
       /\ d.kind = cur.kind
       /\ \/ cur.kind = "accessor" /\ d.hasSet = cur.hasSet
          \/ cur.kind = "data" /\ cur.writable
          \/ cur.kind = "data" /\ ~d.writable /\ d.value = cur.value

\* Object.defineProperty(obj, p, d) for a complete descriptor d
DefineProperty(obj, p, d) ==
    IF DefineAllowed(obj[p], d)
    THEN [obj |-> [obj EXCEPT ![p] = d], threw |-> FALSE]
    ELSE [obj |-> obj, threw |-> TRUE]

\* delete obj[p] in strict-mode code
DeleteProperty(obj, p) ==
    IF obj[p].kind = "none" \/ obj[p].configurable
    THEN [obj |-> [obj EXCEPT ![p] = Absent], threw |-> FALSE]
    ELSE [obj |-> obj, threw |-> TRUE]

\* ------------------------------------------------------------- sandboxes
ProxySandboxes == {"A", "B"}
LegacySandboxes == {"L", "M"}
Sandboxes == ProxySandboxes \cup LegacySandboxes
NoSandbox == "none"

\* currentRunningApp = null
NoApp == [name |-> "", window |-> NoSandbox]

VARIABLES
    host,                           \* the host global object (globalContext / rawWindow)
    inTest,                         \* process.env.NODE_ENV === 'test'
    activeSandboxCount,
    created,                        \* sandboxes whose constructor has run
    name,                           \* sandbox -> name
    sandboxRunning,
    latestSetProp,
    fakeWindow,                     \* ProxySandbox: the proxy's target
    propertiesWithGetter,
    globalWhitelistPrevDescriptor,  \* map: recorded key -> descriptor (Absent for undefined)
    updatedValueSet,
    document,                       \* ProxySandbox: sandbox -> the document its reads return
    descriptorTargetMap,            \* ProxySandbox: sandbox -> map key -> "target" | "globalContext"
    lastDescribed,                  \* history: sandbox -> map key -> what the last describe of the key reported
    functionBoundedValueMap,        \* common.ts: map callable -> its cached bound wrapper
    wrappersMade,                   \* history: callable -> number of wrappers made for it
    boundTo,                        \* map bound wrapper -> the object it is bound to
    nativeGlobal,                   \* utils: the native global object (the host, or another object when the sandboxes are built over another global context)
    currentRunningApp,              \* the running-app registry
    taskPending,                    \* a clearCurrentRunningApp callback is scheduled
    addedPropsMapInSandbox,         \* LegacySandbox: sandbox -> map key -> value
    modifiedPropsOriginalValueMapInSandbox,
    currentUpdatedPropsValueMap,
    hostBefore,                     \* history: the host before the current activation(s)
    writtenSince,                   \* history: keys written since hostBefore was taken
    touchedOutside,                 \* history: written keys other code changed on the host
    writtenOk,                      \* history: keys whose last write through L did not throw
    last,                           \* history: the last operation and its outcome
    pc,                             \* loader: app -> the sequence it is in and its next step
    waitingOn,                      \* loader: app -> the Deferred whose promise it awaits (0: none)
    prevAppUnmountedDeferred,       \* loader.ts line 267 (0: undefined)
    deferredMade,                   \* the Deferred objects made so far are 1..deferredMade
    deferredResolved,               \* the Deferred objects that are resolved
    singular,                       \* configuration.singular
    appConfig,                      \* app -> legacy render and style isolation options
    lifecycles,                     \* app -> the lifecycle exports loadApp found for it
    appError,                       \* app -> the QiankunError thrown to its caller
    trace,                          \* history: app -> sandbox and hook steps of its current sequence
    scope                           \* the key the apps and the host code of a run use

proxyVars ==
    <<inTest, activeSandboxCount, fakeWindow, propertiesWithGetter,
      globalWhitelistPrevDescriptor, updatedValueSet>>
registryVars == <<currentRunningApp, taskPending>>
bindingVars == <<functionBoundedValueMap, wrappersMade, boundTo, nativeGlobal>>
legacyVars ==
    <<addedPropsMapInSandbox, modifiedPropsOriginalValueMapInSandbox,
      currentUpdatedPropsValueMap>>
historyVars == <<hostBefore, writtenSince, touchedOutside, writtenOk, last>>
loaderVars ==
    <<pc, waitingOn, prevAppUnmountedDeferred, deferredMade, deferredResolved,
      singular, appConfig, lifecycles, appError, trace>>
vars ==
    <<host, created, name, sandboxRunning, latestSetProp, proxyVars,
      document, descriptorTargetMap, lastDescribed, registryVars, bindingVars, legacyVars, historyVars, scope,
      loaderVars>>

EmptyMap == [k \in {} |-> Absent]

Op(op, s, p, threw) == [op |-> op, sb |-> s, key |-> p, threw |-> threw]

\* ------------------------------------------------ running-app registry
\* common.ts setCurrentRunningApp
SetCurrentRunningApp(appInstance) == appInstance

\* mutant: the clear leaves the registry as it is
ClearKeepsRunningApp == currentRunningApp

\* common.ts clearCurrentRunningApp
ClearCurrentRunningApp == NoApp

\* utils nextTask(cb): the callback is scheduled for the next microtask tick
NextTask(pending) == TRUE

\* ProxySandbox.registerRunningApp: the registry after sandbox s registers
RegisterRunningApp(s) ==
    IF sandboxRunning[s]
    THEN [app |-> IF currentRunningApp = NoApp \/ currentRunningApp.name # name[s]
                  THEN SetCurrentRunningApp([name |-> name[s], window |-> s])
                  ELSE currentRunningApp,
          pending |-> NextTask(taskPending)]
    ELSE [app |-> currentRunningApp, pending |-> taskPending]

\* the microtask checkpoint that ends a turn: a scheduled clear runs
Tick ==
    /\ IF taskPending
       THEN /\ currentRunningApp' = ClearCurrentRunningApp
            /\ taskPending' = FALSE
       ELSE UNCHANGED registryVars
    /\ last' = Op("tick", currentRunningApp.window, NoKey, FALSE)
    /\ UNCHANGED <<scope, writtenOk, loaderVars, descriptorTargetMap, lastDescribed, bindingVars, document, host, created, name, sandboxRunning, latestSetProp, proxyVars,
                   legacyVars, hostBefore, writtenSince, touchedOutside>>

\* ------------------------------------------------- native value binding
\* getTargetValue, line 44: isCallable(value) && !isBoundedFunction(value) &&
\* !isConstructable(value)
IsEligible(value) == value \in {NativeFn, OtherNativeFn}

\* mutant: the cache is not consulted
CacheMiss(value) == FALSE

\* getTargetValue, lines 45-48: functionBoundedValueMap.get(value) is there
CacheHit(value) == value \in DOMAIN functionBoundedValueMap

\* getTargetValue(target, value) (lines 37-101): what it returns and the
\* cache it leaves; the wrapper is cached under value alone
GetTargetValue(target, value) ==
    IF IsEligible(value)
    THEN IF CacheHit(value)
         THEN [value |-> functionBoundedValueMap[value],
               cache |-> functionBoundedValueMap, made |-> wrappersMade,
               bound |-> boundTo]
         ELSE LET boundValue == BoundValue(value, wrappersMade[value]) IN
              [value |-> boundValue,
               cache |-> (value :> boundValue) @@ functionBoundedValueMap,
               bound |-> (boundValue :> target) @@ boundTo,
               made |-> [wrappersMade EXCEPT ![value] = @ + 1]]
    ELSE [value |-> value, cache |-> functionBoundedValueMap, made |-> wrappersMade,
               bound |-> boundTo]

\* utils isPropertyFrozen(target, p): the property is not configurable and
\* cannot be written
IsPropertyFrozen(obj, p) ==
    /\ HasOwnProperty(obj, p)
    /\ ~obj[p].configurable
    /\ \/ obj[p].kind = "data" /\ ~obj[p].writable
       \/ obj[p].kind = "accessor" /\ ~obj[p].hasSet

\* ---------------------------------------------------------- ProxySandbox
\* createFakeWindow: the descriptor copied onto fakeWindow for own string key p
\* (the keys of the model are none of top, parent, self, window, document)
\* mutant: every copied descriptor is made configurable
FakeWindowDescriptorAllConfigurable(globalContext, p, speedy) ==
    IF IsString(p) /\ HasOwnProperty(globalContext, p) /\ ~globalContext[p].configurable
    THEN [globalContext[p] EXCEPT !.configurable = TRUE]
    ELSE Absent

FakeWindowDescriptor(globalContext, p, speedy) ==
    IF IsString(p) /\ HasOwnProperty(globalContext, p) /\ ~globalContext[p].configurable
    THEN LET d == globalContext[p]
             hasGetter == d.kind = "accessor"
             normalized ==
                 IF p \in UnforgeableKeys \/ (p = "document" /\ speedy)
                 THEN [d EXCEPT !.configurable = TRUE,
                                !.writable = IF hasGetter THEN d.writable ELSE TRUE]
                 ELSE d
         IN IF hasGetter
            THEN [normalized EXCEPT !.value = Undefined]
            ELSE normalized
    ELSE Absent

CreateFakeWindow(globalContext, speedy) ==
    [fakeWindow |-> [p \in Keys |-> FakeWindowDescriptor(globalContext, p, speedy)],
     propertiesWithGetter |->
        {p \in Keys : FakeWindowDescriptor(globalContext, p, speedy).kind = "accessor"}]

\* the number of multiplexed sandboxes whose running flag is set
RunningProxies == {s \in ProxySandboxes : created[s] /\ sandboxRunning[s]}

\* history: hostBefore is taken when the first sandbox becomes active
HistoryOnActivate ==
    IF RunningProxies = {}
    THEN hostBefore' = host /\ writtenSince' = {}
    ELSE UNCHANGED <<hostBefore, writtenSince>>

\* constructor (lines 221-231, 402-404)
Construct(s, nm, speedy) ==
    /\ ~created[s]
    /\ activeSandboxCount < MaxCount
    /\ created' = [created EXCEPT ![s] = TRUE]
    /\ name' = [name EXCEPT ![s] = nm]
    /\ fakeWindow' = [fakeWindow EXCEPT ![s] = CreateFakeWindow(host, speedy).fakeWindow]
    /\ propertiesWithGetter' =
          [propertiesWithGetter EXCEPT ![s] = CreateFakeWindow(host, speedy).propertiesWithGetter]
    /\ sandboxRunning' = [sandboxRunning EXCEPT ![s] = TRUE]
    /\ latestSetProp' = [latestSetProp EXCEPT ![s] = NoKey]
    /\ globalWhitelistPrevDescriptor' =
          [globalWhitelistPrevDescriptor EXCEPT ![s] = EmptyMap]
    /\ updatedValueSet' = [updatedValueSet EXCEPT ![s] = {}]
    /\ activeSandboxCount' = activeSandboxCount + 1
    /\ document' = [document EXCEPT ![s] = HostDocumentRef]
    /\ descriptorTargetMap' = [descriptorTargetMap EXCEPT ![s] = [k \in {} |-> ""]]
    /\ lastDescribed' = [lastDescribed EXCEPT ![s] = [k \in {} |-> ""]]
    /\ HistoryOnActivate
    /\ last' = Op("construct", s, NoKey, FALSE)
    /\ UNCHANGED <<scope, writtenOk, loaderVars, bindingVars, host, inTest, registryVars, legacyVars, touchedOutside>>

\* mutant: active() increments the counter whatever the running flag
ActiveCountAlways(s) == activeSandboxCount + 1

\* active() (lines 184-187)
ActiveCount(s) ==
    IF ~sandboxRunning[s] THEN activeSandboxCount + 1 ELSE activeSandboxCount

Active(s) ==
    /\ created[s]
    /\ ActiveCount(s) <= MaxCount
    /\ activeSandboxCount' = ActiveCount(s)
    /\ sandboxRunning' = [sandboxRunning EXCEPT ![s] = TRUE]
    /\ HistoryOnActivate
    /\ last' = Op("active", s, NoKey, FALSE)
    /\ UNCHANGED <<scope, writtenOk, loaderVars, descriptorTargetMap, lastDescribed, bindingVars, document, host, created, name, latestSetProp, inTest, fakeWindow,
                   propertiesWithGetter, globalWhitelistPrevDescriptor,
                   updatedValueSet, registryVars, legacyVars, touchedOutside>>

\* inactive(): the counter after `inTest || --activeSandboxCount === 0`
InactiveCount == IF inTest THEN activeSandboxCount ELSE activeSandboxCount - 1

\* mutant: the whitelisted properties are reset by every inactive()
ShouldRestoreAlways == TRUE

\* inactive(): whether the whitelisted properties are reset (line 196)
ShouldRestore == inTest \/ InactiveCount = 0

\* inactive() lines 198-206 for one recorded key p
RestoreKey(obj, prev, p) ==
    IF prev[p].kind # "none"
    THEN DefineProperty(obj, p, prev[p])
    ELSE DeleteProperty(obj, p)

\* the forEach over Object.keys(globalWhitelistPrevDescriptor): each key
\* touches only its own host property, so the result is the same in any order
RestoreAll(obj, prev) ==
    [obj |-> [p \in Keys |->
                IF p \in DOMAIN prev THEN RestoreKey(obj, prev, p).obj[p] ELSE obj[p]],
     threw |-> \E p \in DOMAIN prev : RestoreKey(obj, prev, p).threw]

Inactive(s) ==
    /\ created[s]
    /\ InactiveCount >= -MaxCount
    /\ activeSandboxCount' = InactiveCount
    /\ LET r == IF ShouldRestore
                THEN RestoreAll(host, globalWhitelistPrevDescriptor[s])
                ELSE [obj |-> host, threw |-> FALSE]
       IN /\ host' = r.obj
          /\ sandboxRunning' = [sandboxRunning EXCEPT ![s] = r.threw /\ sandboxRunning[s]]
          /\ last' = Op("inactive", s, NoKey, r.threw)
    /\ UNCHANGED <<scope, writtenOk, loaderVars, descriptorTargetMap, lastDescribed, bindingVars, document, created, name, latestSetProp, inTest, fakeWindow,
                   propertiesWithGetter, globalWhitelistPrevDescriptor,
                   updatedValueSet, registryVars, legacyVars, hostBefore,
                   writtenSince, touchedOutside>>

\* set trap, line 238
InWhiteList(p) == IsString(p) /\ p \in globalVariableWhiteList

\* set trap, lines 239-241: the whitelisted key is synced to globalContext
SetWhitelisted(s, p, v) ==
    LET a == Assign(host, p, v) IN
    [prev |-> (p :> host[p]) @@ globalWhitelistPrevDescriptor[s],
     host |-> a.obj, target |-> fakeWindow[s], threw |-> a.threw]

\* set trap, lines 244-255
SetIsolated(s, p, v) ==
    LET target == fakeWindow[s]
        prev == globalWhitelistPrevDescriptor[s]
    IN
    IF ~HasOwnProperty(target, p) /\ HasOwnProperty(host, p)
    THEN IF (host[p].kind = "data" /\ host[p].writable)
            \/ (host[p].kind = "accessor" /\ host[p].hasSet)
         THEN [prev |-> prev, host |-> host,
               target |-> [target EXCEPT ![p] =
                     DataDesc(v, TRUE, host[p].configurable, host[p].enumerable)],
               threw |-> FALSE]
         ELSE [prev |-> prev, host |-> host, target |-> target, threw |-> FALSE]
    ELSE IF target[p].kind = "accessor"
         \* target[p] = value calls the setter copied from globalContext
         THEN IF target[p].hasSet
              THEN [prev |-> prev, host |-> [host EXCEPT ![p].value = v],
                    target |-> target, threw |-> FALSE]
              ELSE [prev |-> prev, host |-> host, target |-> target, threw |-> TRUE]
         ELSE [prev |-> prev, host |-> host, target |-> Assign(target, p, v).obj,
               threw |-> Assign(target, p, v).threw]

\* mutant: the set trap does not look at the running flag
SetGuardMissing(s) == TRUE

\* set trap, line 234
SetGuard(s) == sandboxRunning[s]

\* mutant: the set trap keeps the key it recorded before
LatestSetPropKept(s, p) == latestSetProp[s]

\* set trap, line 260
LatestSetProp(s, p) == p

\* set trap (lines 233-271): the state it leaves and what it returns
SetTrap(s, p, v) ==
    IF SetGuard(s)
    THEN LET r == IF InWhiteList(p) THEN SetWhitelisted(s, p, v) ELSE SetIsolated(s, p, v)
             reg == RegisterRunningApp(s)
         IN [host |-> r.host, target |-> r.target, prev |-> r.prev,
             updated |-> IF r.threw THEN updatedValueSet[s] ELSE updatedValueSet[s] \cup {p},
             latest |-> IF r.threw THEN latestSetProp[s] ELSE LatestSetProp(s, p),
             app |-> reg.app, pending |-> reg.pending,
             threw |-> r.threw, ok |-> ~r.threw]
    ELSE [host |-> host, target |-> fakeWindow[s],
          prev |-> globalWhitelistPrevDescriptor[s],
          updated |-> updatedValueSet[s], latest |-> latestSetProp[s],
          app |-> currentRunningApp, pending |-> taskPending,
          threw |-> FALSE, ok |-> TRUE]

ProxySet(s, p, v) ==
    /\ created[s]
    /\ LET r == SetTrap(s, p, v) IN
       /\ host' = r.host
       /\ fakeWindow' = [fakeWindow EXCEPT ![s] = r.target]
       /\ globalWhitelistPrevDescriptor' =
             [globalWhitelistPrevDescriptor EXCEPT ![s] = r.prev]
       /\ updatedValueSet' = [updatedValueSet EXCEPT ![s] = r.updated]
       /\ latestSetProp' = [latestSetProp EXCEPT ![s] = r.latest]
       /\ currentRunningApp' = r.app
       /\ taskPending' = r.pending
       /\ writtenSince' =
             IF sandboxRunning[s] THEN writtenSince \cup {p} ELSE writtenSince
       /\ last' = Op(IF sandboxRunning[s] THEN "set" ELSE "setInactive", s, p, r.threw)
    /\ UNCHANGED <<scope, writtenOk, loaderVars, descriptorTargetMap, lastDescribed, bindingVars, document, created, name, sandboxRunning, inTest, activeSandboxCount,
                   propertiesWithGetter, legacyVars, hostBefore, touchedOutside>>

\* mutant: the get trap reads from the virtual object whenever that has the
\* key
ActualTargetIgnoresGetters(s, p) ==
    IF HasOwnProperty(fakeWindow[s], p) THEN fakeWindow[s] ELSE host

\* get trap, lines 314-315 (reached for none of the self references,
\* hasOwnProperty, document and eval)
ActualTarget(s, p) ==
    IF p \in propertiesWithGetter[s] THEN host
    ELSE IF HasOwnProperty(fakeWindow[s], p) THEN fakeWindow[s]
    ELSE host

\* get trap, line 309: the test that guards the read of a whitelisted key
\* from globalContext compares the key itself with 'string'
IsWhitelistRead(p) == p = "string" /\ p \in globalVariableWhiteList

\* mutant: patchDocument replaces the document of every sandbox
PatchedForAll(s, doc) == [b \in ProxySandboxes |-> doc]

\* patchDocument(doc) (lines 212-214): this.document = doc
PatchedDocuments(s, doc) == [document EXCEPT ![s] = doc]

PatchDocument(s, doc) ==
    /\ created[s]
    /\ document' = PatchedDocuments(s, doc)
    /\ last' = Op("patchDocument", s, NoKey, FALSE)
    /\ UNCHANGED <<scope, writtenOk, loaderVars, descriptorTargetMap, lastDescribed, bindingVars, host, created, name, sandboxRunning, latestSetProp,
                   proxyVars, registryVars, legacyVars, hostBefore, writtenSince,
                   touchedOutside>>

\* get trap, line 290: globalContext === globalContext.parent
IsOwnParent(globalContext) == GetValue(globalContext, "parent") = GlobalContextRef

\* mutant: the self references are read like any other key
SelfReferenceFromTarget(s, p) == GetValue(ActualTarget(s, p), p)

\* get trap, lines 279-294: what a read of a self reference returns
SelfReference(s, p) ==
    IF p \in {"window", "self", "globalThis"}
    THEN ProxyRef(s)
    ELSE IF IsOwnParent(host) THEN ProxyRef(s) ELSE GetValue(host, p)

\* get trap, line 328: the object a callable read under p is bound to
BoundTarget(p) ==
    IF p \in useNativeWindowForBindingsProps THEN nativeGlobal ELSE GlobalContextRef

\* get trap, lines 314-329: the value read from actualTarget is returned as
\* it is if the property is frozen and through getTargetValue otherwise
Binding(s, p) ==
    LET value == GetValue(ActualTarget(s, p), p) IN
    IF p \in SelfKeys \/ p = "document" \/ IsWhitelistRead(p)
          \/ IsPropertyFrozen(ActualTarget(s, p), p)
    THEN [value |-> value, cache |-> functionBoundedValueMap, made |-> wrappersMade,
               bound |-> boundTo]
    ELSE GetTargetValue(BoundTarget(p), value)

\* the two keys the get trap answers itself and that neither global object
\* owns: Symbol.unscopables (written "unscopables") and hasOwnProperty
OverriddenKeys == {"unscopables", "hasOwnProperty"}

\* the constant unscopables (lines 72-82)
UnscopablesRef == 15

\* the function hasOwnProperty the constructor declares (lines 406-413)
SandboxHasOwnProperty == 16

\* Object.prototype.hasOwnProperty
ObjectPrototypeHasOwnProperty == 17

\* obj[p] for an overridden key, which a global object inherits:
\* Object.prototype has hasOwnProperty and no Symbol.unscopables
PrototypeValue(p) ==
    IF p = "hasOwnProperty" THEN ObjectPrototypeHasOwnProperty ELSE Undefined

\* get trap (lines 273-330; the keys of the model are none of eval and the
\* test mocks)
GetTrap(s, p) ==
    IF p = "unscopables"
    THEN UnscopablesRef
    ELSE IF p \in SelfKeys
    THEN SelfReference(s, p)
    ELSE IF p = "hasOwnProperty"
    THEN SandboxHasOwnProperty
    ELSE IF p = "document"
         THEN document[s]
         ELSE IF IsWhitelistRead(p)
              THEN GetValue(host, p)
              ELSE Binding(s, p).value

ProxyGet(s, p) ==
    /\ created[s]
    /\ \A f \in Callables : Binding(s, p).made[f] <= MaxWrappers
    /\ functionBoundedValueMap' = Binding(s, p).cache
    /\ wrappersMade' = Binding(s, p).made
    /\ boundTo' = Binding(s, p).bound
    /\ UNCHANGED nativeGlobal
    /\ currentRunningApp' = RegisterRunningApp(s).app
    /\ taskPending' = RegisterRunningApp(s).pending
    /\ last' = Op("get", s, p, FALSE)
    /\ UNCHANGED <<scope, writtenOk, loaderVars, descriptorTargetMap, lastDescribed, document, host, created, name, sandboxRunning,
                   latestSetProp, proxyVars, legacyVars, hostBefore, writtenSince,
                   touchedOutside>>

\* lines 58-59
accessingSpiedGlobals == {"document", "top", "parent", "eval"}
overwrittenGlobals == {"window", "self", "globalThis", "hasOwnProperty"}

\* the list imported from ./globals (line 11): names of built-in globals,
\* none of them a key the objects of the model can own
globals == {"Array", "eval"}

\* mutant: no key is always visible
NoCachedGlobals == {}

\* cachedGlobals (lines 60-62)
cachedGlobals ==
    (globals \cup overwrittenGlobals \cup {"requestAnimationFrame"}) \ accessingSpiedGlobals

\* has trap (lines 334-337): a cached global needs no look at the objects
HasTrap(s, p) ==
    \/ p \in cachedGlobals
    \/ HasOwnProperty(fakeWindow[s], p)
    \/ HasOwnProperty(host, p)

ProxyHas(s, p) ==
    /\ created[s]
    /\ last' = Op("has", s, p, FALSE)
    /\ UNCHANGED <<scope, writtenOk, loaderVars, descriptorTargetMap, lastDescribed, bindingVars, document, host, created, name, sandboxRunning, latestSetProp,
                   proxyVars, registryVars, legacyVars, hostBefore, writtenSince,
                   touchedOutside>>

\* mutant: the trap deletes the key from globalContext as well
DeleteTrapThroughHost(s, p) ==
    [host |-> DeleteProperty(host, p).obj,
     target |-> DeleteProperty(fakeWindow[s], p).obj,
     updated |-> updatedValueSet[s] \ {p},
     threw |-> FALSE, ok |-> TRUE]

\* deleteProperty trap (lines 383-394): the state it leaves and what it returns
DeleteTrap(s, p) ==
    IF HasOwnProperty(fakeWindow[s], p)
    THEN LET d == DeleteProperty(fakeWindow[s], p) IN
         [host |-> host, target |-> d.obj,
          updated |-> IF d.threw THEN updatedValueSet[s] ELSE updatedValueSet[s] \ {p},
          threw |-> d.threw, ok |-> ~d.threw]
    ELSE [host |-> host, target |-> fakeWindow[s], updated |-> updatedValueSet[s],
          threw |-> FALSE, ok |-> TRUE]

ProxyDelete(s, p) ==
    /\ created[s]
    /\ LET r == DeleteTrap(s, p) IN
       /\ host' = r.host
       /\ fakeWindow' = [fakeWindow EXCEPT ![s] = r.target]
       /\ updatedValueSet' = [updatedValueSet EXCEPT ![s] = r.updated]
       /\ last' = Op("delete", s, p, r.threw)
    /\ currentRunningApp' = RegisterRunningApp(s).app
    /\ taskPending' = RegisterRunningApp(s).pending
    /\ UNCHANGED <<scope, writtenOk, loaderVars, descriptorTargetMap, lastDescribed, bindingVars, document, created, name, sandboxRunning, latestSetProp, inTest,
                   activeSandboxCount, propertiesWithGetter,
                   globalWhitelistPrevDescriptor, legacyVars, hostBefore,
                   writtenSince, touchedOutside>>

\* getOwnPropertyDescriptor trap, lines 354-357: a descriptor taken from
\* globalContext is reported as configurable
GlobalContextDescriptor(d) == [d EXCEPT !.configurable = TRUE]

\* getOwnPropertyDescriptor trap (lines 339-362): the descriptor it returns
\* (Absent for undefined) and the object it records for the key
GetOwnPropertyDescriptorTrap(s, p) ==
    IF HasOwnProperty(fakeWindow[s], p)
    THEN [descriptor |->
             IF p \in propertiesWithGetter[s]
             THEN [fakeWindow[s][p] EXCEPT !.value = GetValue(host, p)]
             ELSE fakeWindow[s][p],
          from |-> (p :> "target") @@ descriptorTargetMap[s]]
    ELSE IF HasOwnProperty(host, p)
         THEN [descriptor |-> GlobalContextDescriptor(host[p]),
               from |-> (p :> "globalContext") @@ descriptorTargetMap[s]]
         ELSE [descriptor |-> Absent, from |-> descriptorTargetMap[s]]

ProxyDescribe(s, p) ==
    /\ created[s]
    /\ descriptorTargetMap' =
          [descriptorTargetMap EXCEPT ![s] = GetOwnPropertyDescriptorTrap(s, p).from]
    /\ lastDescribed' =
          [lastDescribed EXCEPT ![s] =
              (p :> IF HasOwnProperty(fakeWindow[s], p) THEN "target"
                    ELSE IF HasOwnProperty(host, p) THEN "globalContext"
                    ELSE "undefined") @@ lastDescribed[s]]
    /\ last' = Op("describe", s, p, FALSE)
    /\ UNCHANGED <<scope, writtenOk, loaderVars, bindingVars, document, host, created, name,
                   sandboxRunning, latestSetProp, proxyVars, registryVars, legacyVars,
                   hostBefore, writtenSince, touchedOutside>>

\* mutant: the defineProperty trap always defines on the virtual object
DefineFromTarget(s, p) == "target"

\* defineProperty trap, lines 370 and 375-380: the object the side table
\* names for the key; an unrecorded key goes the default way
DefineFrom(s, p) ==
    IF p \in DOMAIN descriptorTargetMap[s] /\ descriptorTargetMap[s][p] = "globalContext"
    THEN "globalContext"
    ELSE "target"

\* mutant: the defineProperty trap defines on the host whatever the side
\* table names, and on the virtual object as well
DefinePropertyTrapOnBoth(s, p, attributes) ==
    [host |-> DefineProperty(host, p, attributes).obj,
     target |-> DefineProperty(fakeWindow[s], p, attributes).obj,
     ok |-> ~DefineProperty(fakeWindow[s], p, attributes).threw]

\* defineProperty trap (lines 369-381): the two objects it leaves and the
\* boolean Reflect.defineProperty returns
DefinePropertyTrap(s, p, attributes) ==
    IF DefineFrom(s, p) = "globalContext"
    THEN [host |-> DefineProperty(host, p, attributes).obj,
          target |-> fakeWindow[s],
          ok |-> ~DefineProperty(host, p, attributes).threw]
    ELSE [host |-> host,
          target |-> DefineProperty(fakeWindow[s], p, attributes).obj,
          ok |-> ~DefineProperty(fakeWindow[s], p, attributes).threw]

\* Object.defineProperty(proxy, p, attributes): a false result of the trap
\* is a TypeError for the caller
ProxyDefine(s, p, attributes) ==
    /\ created[s]
    /\ host' = DefinePropertyTrap(s, p, attributes).host
    /\ fakeWindow' = [fakeWindow EXCEPT ![s] = DefinePropertyTrap(s, p, attributes).target]
    /\ last' = Op("define", s, p, ~DefinePropertyTrap(s, p, attributes).ok)
    /\ UNCHANGED <<scope, writtenOk, loaderVars, descriptorTargetMap, lastDescribed, bindingVars,
                   document, created, name, sandboxRunning, latestSetProp, inTest,
                   activeSandboxCount, propertiesWithGetter, globalWhitelistPrevDescriptor,
                   updatedValueSet, registryVars, legacyVars, hostBefore, writtenSince,
                   touchedOutside>>

\* --------------------------------------------------------- LegacySandbox
\* isPropConfigurable(target, prop)
IsPropConfigurable(obj, p) == IF HasOwnProperty(obj, p) THEN obj[p].configurable ELSE TRUE

\* Object.defineProperty(obj, p, { writable: true, configurable: true }) on a
\* property that is absent or configurable: an absent one is created with
\* value undefined and not enumerable, an accessor becomes a data property
DefineWritableConfigurable(obj, p) ==
    LET d == obj[p] IN
    [obj EXCEPT ![p] =
        CASE d.kind = "none" -> DataDesc(Undefined, TRUE, TRUE, FALSE)
          [] d.kind = "data" -> DataDesc(d.value, TRUE, TRUE, d.enumerable)
          [] OTHER -> DataDesc(Undefined, TRUE, TRUE, d.enumerable)]

\* setWindowProp, line 536: which properties are written back
CanSetWindowProp(obj, p) == IsPropConfigurable(obj, p) /\ IsString(p)

\* setWindowProp(prop, value, toDelete) (lines 532-541)
SetWindowProp(obj, p, v, toDelete) ==
    IF v = Undefined /\ toDelete
    THEN DeleteProperty(obj, p)
    ELSE IF CanSetWindowProp(obj, p)
         THEN Assign(DefineWritableConfigurable(obj, p), p, v)
         ELSE [obj |-> obj, threw |-> FALSE]

\* new LegacySandbox(name, globalContext) (lines 565-572, 688)
LegacyConstructCall(s, nm) ==
    /\ ~created[s]
    /\ created' = [created EXCEPT ![s] = TRUE]
    /\ name' = [name EXCEPT ![s] = nm]
    /\ sandboxRunning' = [sandboxRunning EXCEPT ![s] = TRUE]
    /\ latestSetProp' = [latestSetProp EXCEPT ![s] = NoKey]
    /\ addedPropsMapInSandbox' = [addedPropsMapInSandbox EXCEPT ![s] = EmptyMap]
    /\ modifiedPropsOriginalValueMapInSandbox' =
          [modifiedPropsOriginalValueMapInSandbox EXCEPT ![s] = EmptyMap]
    /\ currentUpdatedPropsValueMap' = [currentUpdatedPropsValueMap EXCEPT ![s] = EmptyMap]
    /\ hostBefore' = host
    /\ writtenSince' = {}
    /\ last' = Op("legacyConstruct", s, NoKey, FALSE)
    /\ UNCHANGED <<scope, writtenOk, descriptorTargetMap, lastDescribed, bindingVars, document, host, proxyVars, registryVars, touchedOutside>>

\* constructor called outside of any loader sequence
LegacyConstruct(s, nm) == LegacyConstructCall(s, nm) /\ UNCHANGED loaderVars

\* mutant: active() re-applies nothing
ApplyNothing(obj, current) == obj

\* active(), line 546: currentUpdatedPropsValueMap is applied to the host;
\* each entry touches only its own host property
ApplyCurrent(obj, current) ==
    [p \in Keys |->
        IF p \in DOMAIN current
        THEN SetWindowProp(obj, p, current[p], FALSE).obj[p]
        ELSE obj[p]]

\* active() (lines 544-550)
LegacyActiveCall(s) ==
    /\ created[s]
    /\ host' = IF ~sandboxRunning[s]
               THEN ApplyCurrent(host, currentUpdatedPropsValueMap[s])
               ELSE host
    /\ sandboxRunning' = [sandboxRunning EXCEPT ![s] = TRUE]
    /\ IF ~sandboxRunning[s]
       THEN hostBefore' = host /\ writtenSince' = {}
       ELSE UNCHANGED <<hostBefore, writtenSince>>
    /\ last' = Op(IF sandboxRunning[s] THEN "legacyActiveAgain" ELSE "legacyActive",
                  s, NoKey, FALSE)
    /\ UNCHANGED <<scope, writtenOk, descriptorTargetMap, lastDescribed, bindingVars, document, created, name, latestSetProp, proxyVars, registryVars,
                   legacyVars, touchedOutside>>

\* active() called outside of any loader sequence
LegacyActive(s) == LegacyActiveCall(s) /\ UNCHANGED loaderVars

\* mutant: inactive() writes no original value back
RestoreNothing(obj, modified) == obj

\* inactive(), line 558: the recorded original values are written back
RestoreModified(obj, modified) ==
    [p \in Keys |->
        IF p \in DOMAIN modified
        THEN SetWindowProp(obj, p, modified[p], FALSE).obj[p]
        ELSE obj[p]]

\* mutant: inactive() deletes no added key
DeleteNothing(obj, added) == [obj |-> obj, threw |-> FALSE]

\* inactive(), line 560: the added keys are deleted
DeleteAdded(obj, added) ==
    [obj |-> [p \in Keys |->
                IF p \in DOMAIN added
                THEN SetWindowProp(obj, p, Undefined, TRUE).obj[p]
                ELSE obj[p]],
     threw |-> \E p \in DOMAIN added : SetWindowProp(obj, p, Undefined, TRUE).threw]

\* inactive() (lines 553-563)
LegacyInactiveCall(s) ==
    /\ created[s]
    /\ LET r == DeleteAdded(RestoreModified(host, modifiedPropsOriginalValueMapInSandbox[s]),
                            addedPropsMapInSandbox[s])
       IN /\ host' = r.obj
          /\ sandboxRunning' = [sandboxRunning EXCEPT ![s] = r.threw /\ sandboxRunning[s]]
          /\ last' = Op(IF sandboxRunning[s] THEN "legacyInactive" ELSE "legacyInactiveAgain",
                        s, NoKey, r.threw)
    /\ UNCHANGED <<scope, writtenOk, descriptorTargetMap, lastDescribed, bindingVars, document, created, name, latestSetProp, proxyVars, registryVars,
                   legacyVars, hostBefore, writtenSince, touchedOutside>>

\* inactive() called outside of any loader sequence
LegacyInactive(s) == LegacyInactiveCall(s) /\ UNCHANGED loaderVars

\* mutant: setTrap does not look at the running flag
LegacySetGuardMissing(s) == TRUE

\* setTrap, line 599
LegacySetGuard(s) == sandboxRunning[s]

\* setTrap(p, value, originalValue, sync2Window) (lines 597-623) over the
\* host object rawWindow: the state it leaves and what it returns
LegacySetTrapOver(rawWindow, s, p, v, originalValue, sync2Window) ==
    IF LegacySetGuard(s)
    THEN LET a == IF sync2Window THEN Assign(rawWindow, p, v)
                  ELSE [obj |-> rawWindow, threw |-> FALSE]
         IN [added |-> IF ~HasOwnProperty(rawWindow, p)
                       THEN (p :> v) @@ addedPropsMapInSandbox[s]
                       ELSE addedPropsMapInSandbox[s],
             modified |-> IF HasOwnProperty(rawWindow, p)
                             /\ p \notin DOMAIN modifiedPropsOriginalValueMapInSandbox[s]
                          THEN (p :> originalValue) @@ modifiedPropsOriginalValueMapInSandbox[s]
                          ELSE modifiedPropsOriginalValueMapInSandbox[s],
             current |-> (p :> v) @@ currentUpdatedPropsValueMap[s],
             host |-> a.obj,
             latest |-> IF a.threw THEN latestSetProp[s] ELSE p,
             threw |-> a.threw, ok |-> ~a.threw]
    ELSE [added |-> addedPropsMapInSandbox[s],
          modified |-> modifiedPropsOriginalValueMapInSandbox[s],
          current |-> currentUpdatedPropsValueMap[s],
          host |-> rawWindow, latest |-> latestSetProp[s],
          threw |-> FALSE, ok |-> TRUE]

\* setTrap called by the set trap: rawWindow is the host as it is
LegacySetTrap(s, p, v, originalValue, sync2Window) ==
    LegacySetTrapOver(host, s, p, v, originalValue, sync2Window)

\* set trap (lines 627-631)
LegacySet(s, p, v) ==
    /\ created[s]
    /\ LET r == LegacySetTrap(s, p, v, GetValue(host, p), TRUE) IN
       /\ host' = r.host
       /\ addedPropsMapInSandbox' = [addedPropsMapInSandbox EXCEPT ![s] = r.added]
       /\ modifiedPropsOriginalValueMapInSandbox' =
             [modifiedPropsOriginalValueMapInSandbox EXCEPT ![s] = r.modified]
       /\ currentUpdatedPropsValueMap' = [currentUpdatedPropsValueMap EXCEPT ![s] = r.current]
       /\ latestSetProp' = [latestSetProp EXCEPT ![s] = r.latest]
       /\ last' = Op(IF sandboxRunning[s] THEN "legacySet" ELSE "legacySetInactive",
                     s, p, r.threw)
    /\ writtenSince' = IF sandboxRunning[s] THEN writtenSince \cup {p} ELSE writtenSince
    /\ writtenOk' =
          IF ~sandboxRunning[s] THEN writtenOk
          ELSE IF LegacySetTrap(s, p, v, GetValue(host, p), TRUE).threw
               THEN writtenOk \ {p}
               ELSE writtenOk \cup {p}
    /\ UNCHANGED <<scope, loaderVars, descriptorTargetMap, lastDescribed, bindingVars, document, created, name,
                   sandboxRunning, proxyVars, registryVars, hostBefore, touchedOutside>>

\* defineProperty trap (lines 678-685): Reflect.defineProperty on rawWindow,
\* then setTrap with the value read back and no sync to the window
LegacyDefinePropertyTrap(s, p, attributes) ==
    LET defined == DefineProperty(host, p, attributes)
        r == LegacySetTrapOver(defined.obj, s, p, GetValue(defined.obj, p),
                               GetValue(host, p), FALSE)
    IN [added |-> r.added, modified |-> r.modified, current |-> r.current,
        host |-> r.host, latest |-> r.latest, ok |-> ~defined.threw]

\* Object.defineProperty(proxy, p, attributes): a false result of the trap
\* is a TypeError for the caller
LegacyDefine(s, p, attributes) ==
    /\ created[s]
    /\ LET r == LegacyDefinePropertyTrap(s, p, attributes) IN
       /\ host' = r.host
       /\ addedPropsMapInSandbox' = [addedPropsMapInSandbox EXCEPT ![s] = r.added]
       /\ modifiedPropsOriginalValueMapInSandbox' =
             [modifiedPropsOriginalValueMapInSandbox EXCEPT ![s] = r.modified]
       /\ currentUpdatedPropsValueMap' = [currentUpdatedPropsValueMap EXCEPT ![s] = r.current]
       /\ latestSetProp' = [latestSetProp EXCEPT ![s] = r.latest]
       /\ last' = Op(IF sandboxRunning[s] THEN "legacyDefine" ELSE "legacyDefineInactive",
                     s, p, ~r.ok)
       /\ writtenOk' =
             IF ~sandboxRunning[s] THEN writtenOk
             ELSE IF r.ok THEN writtenOk \cup {p} ELSE writtenOk \ {p}
    /\ writtenSince' = IF sandboxRunning[s] THEN writtenSince \cup {p} ELSE writtenSince
    /\ UNCHANGED <<scope, loaderVars, descriptorTargetMap, lastDescribed, bindingVars, document,
                   created, name, sandboxRunning, proxyVars, registryVars, hostBefore,
                   touchedOutside>>

\* get trap (lines 633-645): the value it returns and the wrapper cache it
\* leaves
LegacyGetTrap(s, p) ==
    IF p \in UnforgeableKeys
    THEN [value |-> ProxyRef(s), cache |-> functionBoundedValueMap, made |-> wrappersMade,
               bound |-> boundTo]
    ELSE GetTargetValue(GlobalContextRef, GetValue(host, p))

LegacyGet(s, p) ==
    /\ created[s]
    /\ \A f \in Callables : LegacyGetTrap(s, p).made[f] <= MaxWrappers
    /\ functionBoundedValueMap' = LegacyGetTrap(s, p).cache
    /\ wrappersMade' = LegacyGetTrap(s, p).made
    /\ boundTo' = LegacyGetTrap(s, p).bound
    /\ UNCHANGED nativeGlobal
    /\ last' = Op("legacyGet", s, p, FALSE)
    /\ UNCHANGED <<scope, writtenOk, loaderVars, descriptorTargetMap, lastDescribed, document, host, created, name,
                   sandboxRunning, latestSetProp, proxyVars, registryVars, legacyVars,
                   hostBefore, writtenSince, touchedOutside>>

\* has trap (lines 649-651)
LegacyHasTrap(s, p) == HasOwnProperty(host, p)

LegacyHas(s, p) ==
    /\ created[s]
    /\ last' = Op("legacyHas", s, p, FALSE)
    /\ UNCHANGED <<scope, writtenOk, loaderVars, descriptorTargetMap, lastDescribed, bindingVars, document, host, created, name,
                   sandboxRunning, latestSetProp, proxyVars, registryVars, legacyVars,
                   hostBefore, writtenSince, touchedOutside>>

\* the handler has no deleteProperty trap (lines 626-686): a delete acts on
\* the empty fakeWindow of line 573, which no trap ever writes
LegacyDelete(s, p) ==
    /\ created[s]
    /\ last' = Op("legacyDelete", s, p, FALSE)
    /\ UNCHANGED <<scope, writtenOk, loaderVars, descriptorTargetMap, lastDescribed, bindingVars, document, host, created, name,
                   sandboxRunning, latestSetProp, proxyVars, registryVars, legacyVars,
                   hostBefore, writtenSince, touchedOutside>>

\* the keys some diffing sandbox has written
UpdatedKeys == UNION {DOMAIN currentUpdatedPropsValueMap[s] : s \in LegacySandboxes}

\* other code assigns a host property while no sandbox is active
HostAssign(p, v) ==
    /\ \A s \in Sandboxes : ~(created[s] /\ sandboxRunning[s])
    /\ ~Assign(host, p, v).threw
    /\ host' = Assign(host, p, v).obj
    /\ touchedOutside' = touchedOutside \cup ({p} \cap UpdatedKeys)
    /\ last' = Op("hostAssign", NoSandbox, p, FALSE)
    /\ UNCHANGED <<scope, writtenOk, loaderVars, descriptorTargetMap, lastDescribed, bindingVars, document, created, name, sandboxRunning, latestSetProp, proxyVars,
                   registryVars, legacyVars, hostBefore, writtenSince>>

\* other code deletes a host property while no sandbox is active
HostDelete(p) ==
    /\ \A s \in Sandboxes : ~(created[s] /\ sandboxRunning[s])
    /\ HasOwnProperty(host, p)
    /\ ~DeleteProperty(host, p).threw
    /\ host' = DeleteProperty(host, p).obj
    /\ touchedOutside' = touchedOutside \cup ({p} \cap UpdatedKeys)
    /\ last' = Op("hostDelete", NoSandbox, p, FALSE)
    /\ UNCHANGED <<scope, writtenOk, loaderVars, descriptorTargetMap, lastDescribed, bindingVars, document, created, name, sandboxRunning, latestSetProp, proxyVars,
                   registryVars, legacyVars, hostBefore, writtenSince>>

\* ---------------------------------------------------------------- loader
\* the micro-apps of the model; each uses the diffing strategy
\* (sandbox: { loose: true }) and has its own sandbox
Apps == {"app1", "app2"}

SandboxOf(a) == IF a = "app1" THEN "L" ELSE "M"

\* the awaits and statements of loadApp, in order (lines 300-386)
LoadSteps == <<"importEntry", "singularWait", "setup", "execScripts">>

\* mutant: the app's mount hook is placed before mountSandbox
MountStepsHookFirst ==
    <<"singularWait", "wrapperGetter", "render", "mount", "beforeMount", "mountSandbox",
      "rendered", "afterMount", "newDeferred">>

\* parcelConfig.mount (lines 407-455)
MountSteps ==
    <<"singularWait", "wrapperGetter", "render", "mountSandbox", "beforeMount", "mount",
      "rendered", "afterMount", "newDeferred">>

\* parcelConfig.unmount (lines 461-478)
UnmountSteps ==
    <<"beforeUnmount", "unmount", "unmountSandbox", "afterUnmount", "render",
      "resolveDeferred">>

Steps(seq) ==
    CASE seq = "load" -> LoadSteps
      [] seq = "mount" -> MountSteps
      [] seq = "unmount" -> UnmountSteps
      [] OTHER -> <<>>

\* an app whose loadApp has not been called
NotLoaded == [seq |-> "none", i |-> 1]
\* an app one of whose steps has thrown
Failed == [seq |-> "failed", i |-> 1]

\* app a is about to run the named step of the sequence and awaits nothing
At(a, seq, step) ==
    /\ pc[a].seq = seq
    /\ pc[a].i <= Len(Steps(seq))
    /\ Steps(seq)[pc[a].i] = step
    /\ waitingOn[a] = 0

\* app a has run the sequence to its end
Done(a, seq) == pc[a].seq = seq /\ pc[a].i = Len(Steps(seq)) + 1

Advance(a) == pc' = [pc EXCEPT ![a].i = @ + 1]

\* everything but the loader's variables and last
sandboxVars ==
    <<host, created, name, sandboxRunning, latestSetProp, proxyVars, document,
      descriptorTargetMap, lastDescribed, registryVars, bindingVars, legacyVars, hostBefore,
      writtenSince, touchedOutside, writtenOk, scope>>

\* a step of a sequence that touches neither a sandbox nor the Deferred
Pass(a, seq, step) ==
    /\ At(a, seq, step)
    /\ Advance(a)
    /\ last' = Op(step, SandboxOf(a), NoKey, FALSE)
    /\ UNCHANGED <<sandboxVars, waitingOn, prevAppUnmountedDeferred, deferredMade,
                   deferredResolved, singular, appConfig, lifecycles, appError, trace>>

\* validateSingularMode(singular, app) for a boolean option (lines 71-76)
ValidateSingularMode(a) == singular

\* the errors of getAppWrapperGetter
NoError == ""
StrictError == "strictStyleIsolation can not be used with legacy render!"
ScopedError == "experimentalStyleIsolation can not be used with legacy render!"

\* a call of the function getAppWrapperGetter returns (lines 148-166), the
\* wrapper element being there: the error it throws, NoError if it returns
GetAppWrapperGetter(useLegacyRender, strictStyleIsolation, scopedCSS) ==
    IF useLegacyRender
    THEN IF strictStyleIsolation THEN StrictError
         ELSE IF scopedCSS THEN ScopedError
         ELSE NoError
    ELSE NoError

AppWrapperGetter(a) ==
    GetAppWrapperGetter(appConfig[a].legacyRender, appConfig[a].strictStyleIsolation,
                        appConfig[a].scopedCSS)

\* loadApp is called and awaits importEntry (lines 278-300)
LoadApp(a) ==
    /\ pc[a] = NotLoaded
    /\ pc' = [pc EXCEPT ![a] = [seq |-> "load", i |-> 1]]
    /\ last' = Op("loadApp", SandboxOf(a), NoKey, FALSE)
    /\ UNCHANGED <<sandboxVars, waitingOn, prevAppUnmountedDeferred, deferredMade,
                   deferredResolved, singular, appConfig, lifecycles, appError, trace>>

\* lines 300-303
ImportEntry(a) == Pass(a, "load", "importEntry")

\* a singular wait of the named sequence (lines 308-310, 408-414): the app
\* awaits the promise of the Deferred there is at this moment, if any
SingularWait(a, seq) ==
    /\ At(a, seq, "singularWait")
    /\ IF ValidateSingularMode(a) /\ prevAppUnmountedDeferred # 0
       THEN /\ waitingOn' = [waitingOn EXCEPT ![a] = prevAppUnmountedDeferred]
            /\ UNCHANGED pc
       ELSE /\ Advance(a)
            /\ UNCHANGED waitingOn
    /\ last' = Op("singularWait", SandboxOf(a), NoKey, FALSE)
    /\ UNCHANGED <<sandboxVars, prevAppUnmountedDeferred, deferredMade,
                   deferredResolved, singular, appConfig, lifecycles, appError, trace>>

LoadSingularWait(a) == SingularWait(a, "load")

\* the awaited promise is resolved and the sequence goes on
WaitOver(a) ==
    /\ waitingOn[a] # 0
    /\ waitingOn[a] \in deferredResolved
    /\ waitingOn' = [waitingOn EXCEPT ![a] = 0]
    /\ Advance(a)
    /\ last' = Op("waitOver", SandboxOf(a), NoKey, FALSE)
    /\ UNCHANGED <<sandboxVars, prevAppUnmountedDeferred, deferredMade,
                   deferredResolved, singular, appConfig, lifecycles, appError, trace>>

\* createSandboxContainer (called at lines 349-358) constructs the sandbox
CreateSandboxContainer(a) == LegacyConstructCall(SandboxOf(a), a)

\* lines 311-371: the wrapper element is created and rendered, the wrapper
\* getter is made but not called, the sandbox container is created
LoadSetup(a) ==
    /\ At(a, "load", "setup")
    /\ CreateSandboxContainer(a)
    /\ Advance(a)
    /\ UNCHANGED <<waitingOn, prevAppUnmountedDeferred, deferredMade,
                   deferredResolved, singular, appConfig, lifecycles, appError, trace>>

\* what an entry script can export: objects with the lifecycle functions,
\* an object without them, or nothing
ValidExports == {21, 22, 23}
InvalidExports == 24
ScriptExports == ValidExports \cup {InvalidExports, Undefined}

\* utils validateExportLifecycle(exports): bootstrap, mount and unmount are
\* functions
ValidateExportLifecycle(exports) == exports \in ValidExports

\* if (globalLatestSetProp): null, undefined and the empty string are falsy
IsTruthyKey(p) == p # NoKey /\ p # ""

\* the error of getLifecyclesFromExports
LifecycleError == "You need to export lifecycle functions in entry"

\* global[p] read through the proxy of the app's sandbox (the values of the
\* model's global keys at that point are no callables)
GlobalRead(s, p) == LegacyGetTrap(s, p).value

\* getLifecyclesFromExports (lines 233-265): the exports it returns or the
\* error it throws
GetLifecyclesFromExports(scriptExports, appName, s, globalLatestSetProp) ==
    IF ValidateExportLifecycle(scriptExports)
    THEN [lifecycles |-> scriptExports, error |-> NoError]
    ELSE IF IsTruthyKey(globalLatestSetProp)
            /\ ValidateExportLifecycle(GlobalRead(s, globalLatestSetProp))
    THEN [lifecycles |-> GlobalRead(s, globalLatestSetProp), error |-> NoError]
    ELSE IF ValidateExportLifecycle(GlobalRead(s, appName))
    THEN [lifecycles |-> GlobalRead(s, appName), error |-> NoError]
    ELSE [lifecycles |-> Undefined, error |-> LifecycleError]

\* lines 374-488: beforeLoad hooks, the entry script returns scriptExports,
\* its lifecycle exports are looked up; loadApp returns parcelConfigGetter,
\* or rejects with the error of the lookup
ExecScripts(a, scriptExports) ==
    /\ At(a, "load", "execScripts")
    /\ LET r == GetLifecyclesFromExports(scriptExports, a, SandboxOf(a),
                                         latestSetProp[SandboxOf(a)])
       IN /\ lifecycles' = [lifecycles EXCEPT ![a] = r.lifecycles]
          /\ appError' = [appError EXCEPT ![a] = r.error]
          /\ pc' = IF r.error = NoError
                   THEN [pc EXCEPT ![a].i = @ + 1]
                   ELSE [pc EXCEPT ![a] = Failed]
          /\ last' = Op("execScripts", SandboxOf(a), NoKey, r.error # NoError)
    /\ UNCHANGED <<sandboxVars, waitingOn, prevAppUnmountedDeferred, deferredMade,
                   deferredResolved, singular, appConfig, trace>>

\* the mount sequence of a loaded app that is not mounted is started
StartMount(a) ==
    /\ Done(a, "load") \/ Done(a, "unmount")
    /\ pc' = [pc EXCEPT ![a] = [seq |-> "mount", i |-> 1]]
    /\ trace' = [trace EXCEPT ![a] = <<>>]
    /\ last' = Op("startMount", SandboxOf(a), NoKey, FALSE)
    /\ UNCHANGED <<sandboxVars, waitingOn, prevAppUnmountedDeferred, deferredMade,
                   deferredResolved, singular, appConfig, lifecycles, appError>>

\* lines 408-414
MountSingularWait(a) == SingularWait(a, "mount")

\* lines 416-425
MountWrapperGetter(a) == Pass(a, "mount", "wrapperGetter")

\* lines 427-439
MountRender(a) == Pass(a, "mount", "render")

\* sandboxContainer.mount activates the sandbox
MountSandboxCall(a) == LegacyActiveCall(SandboxOf(a))

\* line 440
MountSandbox(a) ==
    /\ At(a, "mount", "mountSandbox")
    /\ MountSandboxCall(a)
    /\ Advance(a)
    /\ trace' = [trace EXCEPT ![a] = Append(@, "mountSandbox")]
    /\ UNCHANGED <<waitingOn, prevAppUnmountedDeferred, deferredMade,
                   deferredResolved, singular, appConfig, lifecycles, appError>>

\* line 443
BeforeMount(a) == Pass(a, "mount", "beforeMount")

\* line 444: appWrapperGetter() is evaluated, then the app's mount hook runs
Mount(a) ==
    /\ At(a, "mount", "mount")
    /\ IF AppWrapperGetter(a) # NoError
       THEN /\ pc' = [pc EXCEPT ![a] = Failed]
            /\ appError' = [appError EXCEPT ![a] = AppWrapperGetter(a)]
            /\ UNCHANGED trace
       ELSE /\ Advance(a)
            /\ trace' = [trace EXCEPT ![a] = Append(@, "mount")]
            /\ UNCHANGED appError
    /\ last' = Op("mount", SandboxOf(a), NoKey, AppWrapperGetter(a) # NoError)
    /\ UNCHANGED <<sandboxVars, waitingOn, prevAppUnmountedDeferred, deferredMade,
                   deferredResolved, singular, appConfig, lifecycles>>

\* line 447
RenderMounted(a) == Pass(a, "mount", "rendered")

\* line 448
AfterMount(a) == Pass(a, "mount", "afterMount")

\* lines 450-454
NewDeferred(a) ==
    /\ At(a, "mount", "newDeferred")
    /\ IF ValidateSingularMode(a)
       THEN /\ deferredMade < MaxDeferred
            /\ deferredMade' = deferredMade + 1
            /\ prevAppUnmountedDeferred' = deferredMade + 1
       ELSE UNCHANGED <<deferredMade, prevAppUnmountedDeferred>>
    /\ Advance(a)
    /\ last' = Op("newDeferred", SandboxOf(a), NoKey, FALSE)
    /\ UNCHANGED <<sandboxVars, waitingOn, deferredResolved, singular, appConfig, lifecycles,
                   appError, trace>>

\* the unmount sequence of a mounted app is started
StartUnmount(a) ==
    /\ Done(a, "mount")
    /\ pc' = [pc EXCEPT ![a] = [seq |-> "unmount", i |-> 1]]
    /\ trace' = [trace EXCEPT ![a] = <<>>]
    /\ last' = Op("startUnmount", SandboxOf(a), NoKey, FALSE)
    /\ UNCHANGED <<sandboxVars, waitingOn, prevAppUnmountedDeferred, deferredMade,
                   deferredResolved, singular, appConfig, lifecycles, appError>>

\* line 462
BeforeUnmount(a) == Pass(a, "unmount", "beforeUnmount")

\* line 463: appWrapperGetter() is evaluated, then the app's unmount hook runs
Unmount(a) ==
    /\ At(a, "unmount", "unmount")
    /\ IF AppWrapperGetter(a) # NoError
       THEN /\ pc' = [pc EXCEPT ![a] = Failed]
            /\ appError' = [appError EXCEPT ![a] = AppWrapperGetter(a)]
            /\ UNCHANGED trace
       ELSE /\ Advance(a)
            /\ trace' = [trace EXCEPT ![a] = Append(@, "unmount")]
            /\ UNCHANGED appError
    /\ last' = Op("unmount", SandboxOf(a), NoKey, AppWrapperGetter(a) # NoError)
    /\ UNCHANGED <<sandboxVars, waitingOn, prevAppUnmountedDeferred, deferredMade,
                   deferredResolved, singular, appConfig, lifecycles>>

\* sandboxContainer.unmount deactivates the sandbox
UnmountSandboxCall(a) == LegacyInactiveCall(SandboxOf(a))

\* line 464
UnmountSandbox(a) ==
    /\ At(a, "unmount", "unmountSandbox")
    /\ UnmountSandboxCall(a)
    /\ Advance(a)
    /\ trace' = [trace EXCEPT ![a] = Append(@, "unmountSandbox")]
    /\ UNCHANGED <<waitingOn, prevAppUnmountedDeferred, deferredMade,
                   deferredResolved, singular, appConfig, lifecycles, appError>>

\* line 465
AfterUnmount(a) == Pass(a, "unmount", "afterUnmount")

\* lines 466-472
RenderUnmounted(a) == Pass(a, "unmount", "render")

\* lines 473-477
ResolveDeferred(a) ==
    /\ At(a, "unmount", "resolveDeferred")
    /\ deferredResolved' =
          IF ValidateSingularMode(a) /\ prevAppUnmountedDeferred # 0
          THEN deferredResolved \cup {prevAppUnmountedDeferred}
          ELSE deferredResolved
    /\ Advance(a)
    /\ last' = Op("resolveDeferred", SandboxOf(a), NoKey, FALSE)
    /\ UNCHANGED <<sandboxVars, waitingOn, prevAppUnmountedDeferred, deferredMade,
                   singular, appConfig, lifecycles, appError, trace>>

\* the steps of parcelConfig.unmount that run hooks of the application or of
\* the sandbox container (lines 462-465)
UnmountHooks == {"beforeUnmount", "unmount", "unmountSandbox", "afterUnmount"}

HookError == "unmount hook rejected"

\* one of these steps rejects: the promise of the sequence is rejected and
\* the steps after it, the resolve of the Deferred among them, are not run
UnmountRejects(a) ==
    /\ pc[a].seq = "unmount"
    /\ pc[a].i <= Len(UnmountSteps)
    /\ UnmountSteps[pc[a].i] \in UnmountHooks
    /\ waitingOn[a] = 0
    /\ pc' = [pc EXCEPT ![a] = Failed]
    /\ appError' = [appError EXCEPT ![a] = HookError]
    /\ last' = Op(UnmountSteps[pc[a].i], SandboxOf(a), NoKey, TRUE)
    /\ UNCHANGED <<sandboxVars, waitingOn, prevAppUnmountedDeferred, deferredMade,
                   deferredResolved, singular, appConfig, lifecycles, trace>>

\* ------------------------------------------------------ specifications
\* shapes of a host property before any sandbox exists
HostShapes ==
    {Absent}
    \cup {DataDesc(0, w, c, TRUE) : w \in BOOLEAN, c \in BOOLEAN}
    \cup {AccessorDesc(0, st, c, TRUE) : st \in BOOLEAN, c \in BOOLEAN}

NoOp == Op("init", NoSandbox, NoKey, FALSE)

InitObjects ==
    /\ created = [s \in Sandboxes |-> FALSE]
    /\ name = [s \in Sandboxes |-> ""]
    /\ sandboxRunning = [s \in Sandboxes |-> FALSE]
    /\ latestSetProp = [s \in Sandboxes |-> NoKey]
    /\ activeSandboxCount = 0
    /\ fakeWindow = [s \in ProxySandboxes |-> [p \in Keys |-> Absent]]
    /\ propertiesWithGetter = [s \in ProxySandboxes |-> {}]
    /\ globalWhitelistPrevDescriptor = [s \in ProxySandboxes |-> EmptyMap]
    /\ updatedValueSet = [s \in ProxySandboxes |-> {}]
    /\ document = [s \in ProxySandboxes |-> HostDocumentRef]
    /\ descriptorTargetMap = [s \in ProxySandboxes |-> [k \in {} |-> ""]]
    /\ lastDescribed = [s \in ProxySandboxes |-> [k \in {} |-> ""]]
    /\ functionBoundedValueMap = [f \in {} |-> 0]
    /\ wrappersMade = [f \in Callables |-> 0]
    /\ boundTo = [f \in {} |-> 0]
    /\ currentRunningApp = NoApp
    /\ taskPending = FALSE
    /\ addedPropsMapInSandbox = [s \in LegacySandboxes |-> EmptyMap]
    /\ modifiedPropsOriginalValueMapInSandbox = [s \in LegacySandboxes |-> EmptyMap]
    /\ currentUpdatedPropsValueMap = [s \in LegacySandboxes |-> EmptyMap]
    /\ hostBefore = host
    /\ writtenSince = {}
    /\ touchedOutside = {}
    /\ writtenOk = {}
    /\ last = NoOp

\* options of an app: no legacy render and no style isolation
PlainConfig == [legacyRender |-> FALSE, strictStyleIsolation |-> FALSE, scopedCSS |-> FALSE]

\* no loadApp has been called
LoaderIdle ==
    /\ pc = [a \in Apps |-> NotLoaded]
    /\ waitingOn = [a \in Apps |-> 0]
    /\ prevAppUnmountedDeferred = 0
    /\ deferredMade = 0
    /\ deferredResolved = {}
    /\ appError = [a \in Apps |-> NoError]
    /\ lifecycles = [a \in Apps |-> Undefined]
    /\ trace = [a \in Apps |-> <<>>]

\* the sandboxes are built over the native global object
InitSandboxes == InitObjects /\ nativeGlobal = GlobalContextRef

InitCommon ==
    /\ InitSandboxes
    /\ LoaderIdle
    /\ singular = FALSE
    /\ appConfig = [a \in Apps |-> PlainConfig]

\* the name each sandbox is constructed with where names do not matter
AppName(s) == IF s = "A" THEN "app1" ELSE "app2"

\* the host with property d under key k and no other property of the model
HostWith(k, d) == [p \in Keys |-> IF p = k THEN d ELSE Absent]

\* Multiplexed sandboxes A and B over one host.  A run uses one key: the
\* whitelisted System, absent or an ordinary property of the host, or foo,
\* outside the whitelist, in any shape.
ProxyInit ==
    /\ inTest \in BOOLEAN
    /\ \/ /\ scope = "System"
          /\ \E d \in {Absent, DataDesc(0, TRUE, TRUE, TRUE)} : host = HostWith("System", d)
       \/ /\ scope = "foo"
          /\ \E d \in HostShapes : host = HostWith("foo", d)
    /\ InitCommon

ProxyNext ==
    \/ \E s \in ProxySandboxes , speedy \in BOOLEAN : Construct(s, AppName(s), speedy)
    \/ \E s \in ProxySandboxes : Active(s)
    \/ \E s \in ProxySandboxes : Inactive(s)
    \/ \E s \in ProxySandboxes, v \in Vals : ProxySet(s, scope, v)
    \/ \E s \in ProxySandboxes : ProxyGet(s, scope)
    \/ Tick

SpecProxy == ProxyInit /\ [][ProxyNext]_vars

\* Multiplexed sandboxes A and B over a host whose whitelisted property
\* System has any shape.
WhitelistInit ==
    /\ inTest = FALSE
    /\ scope = "System"
    /\ \E d \in HostShapes : host = HostWith("System", d)
    /\ InitCommon

WhitelistNext ==
    \/ \E s \in ProxySandboxes , speedy \in BOOLEAN : Construct(s, AppName(s), speedy)
    \/ \E s \in ProxySandboxes : Active(s)
    \/ \E s \in ProxySandboxes : Inactive(s)
    \/ \E s \in ProxySandboxes, v \in Vals : ProxySet(s, scope, v)

SpecWhitelist == WhitelistInit /\ [][WhitelistNext]_vars

\* One multiplexed sandbox A activated and deactivated again and again over
\* a host whose whitelisted property System other code assigns while A is
\* inactive.
ReactivateInit ==
    /\ inTest = FALSE
    /\ scope = "System"
    /\ \E d \in {Absent, DataDesc(0, TRUE, TRUE, TRUE)} : host = HostWith("System", d)
    /\ InitCommon

ReactivateNext ==
    \/ \E speedy \in BOOLEAN : Construct("A", AppName("A"), speedy)
    \/ Active("A")
    \/ Inactive("A")
    \/ \E v \in Vals : ProxySet("A", scope, v)
    \/ \E v \in Vals : HostAssign(scope, v)

SpecReactivate == ReactivateInit /\ [][ReactivateNext]_vars

\* One multiplexed sandbox A and every trap of its virtual global object.
\* A run uses one key: foo in any shape, the whitelisted System or the
\* symbol sym.
TrapSandboxes == {"A"}

TrapsInit ==
    /\ inTest = FALSE
    /\ \/ /\ scope = "foo"
          /\ \E d \in HostShapes : host = HostWith("foo", d)
       \/ /\ scope \in {"System", "sym"}
          /\ \E d \in {Absent, DataDesc(0, TRUE, TRUE, TRUE)} : host = HostWith(scope, d)
    /\ InitCommon

TrapsNext ==
    \/ \E s \in TrapSandboxes , speedy \in BOOLEAN : Construct(s, AppName(s), speedy)
    \/ \E s \in TrapSandboxes : Active(s)
    \/ \E s \in TrapSandboxes : Inactive(s)
    \/ \E s \in TrapSandboxes, v \in Vals : ProxySet(s, scope, v)
    \/ \E s \in TrapSandboxes : ProxyGet(s, scope)
    \/ \E s \in TrapSandboxes : ProxyHas(s, scope)
    \/ \E s \in TrapSandboxes : ProxyDelete(s, scope)

SpecTraps == TrapsInit /\ [][TrapsNext]_vars

\* One multiplexed sandbox over a host that has, or has not, the one key of
\* the run: foo or the cached global globalThis.
HasInit ==
    /\ inTest = FALSE
    /\ scope \in {"foo", "globalThis"}
    /\ \E d \in {Absent, DataDesc(0, TRUE, TRUE, TRUE)} : host = HostWith(scope, d)
    /\ InitCommon

SpecHas == HasInit /\ [][TrapsNext]_vars

\* Multiplexed sandboxes A and B constructed with any names, the same name
\* included, read in turns that the microtask checkpoint ends.
NamesInit ==
    /\ inTest = FALSE
    /\ scope = "foo"
    /\ \E d \in {Absent, DataDesc(0, TRUE, TRUE, TRUE)} : host = HostWith("foo", d)
    /\ InitCommon

NamesNext ==
    \/ \E s \in ProxySandboxes, nm \in Apps, speedy \in BOOLEAN : Construct(s, nm, speedy)
    \/ \E s \in ProxySandboxes : Active(s)
    \/ \E s \in ProxySandboxes : Inactive(s)
    \/ \E s \in ProxySandboxes : ProxyGet(s, scope)
    \/ \E s \in ProxySandboxes, v \in Vals : ProxySet(s, scope, v)
    \/ Tick

SpecNames == NamesInit /\ [][NamesNext]_vars

\* the two shapes of window.window, self, top and parent (lines 140-145)
UnforgeableShapes(v) ==
    {DataDesc(v, FALSE, FALSE, TRUE), AccessorDesc(v, FALSE, FALSE, TRUE)}

\* a browser's global object: window and self name it, top and parent name
\* it or, in a framed host, another window
BrowserHost(shape, framed) ==
    [p \in Keys |->
        CASE p \in {"window", "self"} -> [shape EXCEPT !.value = GlobalContextRef]
          [] p \in {"top", "parent"} ->
                [shape EXCEPT !.value = IF framed THEN OtherWindowRef ELSE GlobalContextRef]
          [] p = "globalThis" -> DataDesc(GlobalContextRef, TRUE, TRUE, FALSE)
          [] OTHER -> Absent]

\* One multiplexed sandbox over a browser's global object; a run reads and
\* writes one of the self references.
SelfRefInit ==
    /\ inTest = FALSE
    /\ scope \in SelfKeys
    /\ \E shape \in UnforgeableShapes(0), framed \in BOOLEAN : host = BrowserHost(shape, framed)
    /\ InitCommon

SpecSelfRef == SelfRefInit /\ [][TrapsNext]_vars

\* Multiplexed sandboxes A and B over a host with its document, an accessor
\* without setter that is not configurable; the apps read and write the key
\* document and the loader patches the sandboxes' documents.
DocumentInit ==
    /\ inTest = FALSE
    /\ scope = "document"
    /\ host = HostWith("document", AccessorDesc(HostDocumentRef, FALSE, FALSE, TRUE))
    /\ InitCommon

DocumentNext ==
    \/ \E s \in ProxySandboxes, speedy \in BOOLEAN : Construct(s, AppName(s), speedy)
    \/ \E s \in ProxySandboxes : Active(s)
    \/ \E s \in ProxySandboxes : Inactive(s)
    \/ \E s \in ProxySandboxes, v \in Vals : ProxySet(s, scope, v)
    \/ \E s \in ProxySandboxes : ProxyGet(s, scope)
    \/ \E s \in ProxySandboxes, doc \in Vals : PatchDocument(s, doc)

SpecDocument == DocumentInit /\ [][DocumentNext]_vars

\* Multiplexed sandboxes A and B over a host whose property foo holds a
\* function: an ordinary property, a frozen one or an accessor.  The apps
\* read foo and store functions under it.
BindingInit ==
    /\ inTest = FALSE
    /\ scope = "foo"
    /\ \E f \in Callables :
          \E d \in {DataDesc(f, TRUE, TRUE, TRUE), DataDesc(f, FALSE, FALSE, TRUE),
                    AccessorDesc(f, FALSE, FALSE, TRUE)} : host = HostWith("foo", d)
    /\ InitCommon

BindingNext ==
    \/ \E s \in ProxySandboxes, speedy \in BOOLEAN : Construct(s, AppName(s), speedy)
    \/ \E s \in ProxySandboxes : Inactive(s)
    \/ \E s \in ProxySandboxes, f \in Callables : ProxySet(s, scope, f)
    \/ \E s \in ProxySandboxes : ProxyGet(s, scope)

SpecBinding == BindingInit /\ [][BindingNext]_vars

\* One multiplexed sandbox over a browser's global object that also has a
\* document, a property foo in any shape and possibly a symbol-keyed
\* property that is not configurable; its properties are described through
\* the virtual global object.
DescribeInit ==
    /\ inTest = FALSE
    /\ scope = "foo"
    /\ \E shape \in UnforgeableShapes(0), framed \in BOOLEAN, d \in HostShapes,
          e \in {Absent, DataDesc(0, FALSE, FALSE, TRUE)} :
          host = [p \in Keys |->
                    CASE p = "foo" -> d
                      [] p = "sym" -> e
                      [] p = "document" -> AccessorDesc(HostDocumentRef, FALSE, FALSE, TRUE)
                      [] OTHER -> BrowserHost(shape, framed)[p]]
    /\ InitCommon

DescribedKeys == {"foo", "sym", "window", "document"}

DescribeNext ==
    \/ \E s \in TrapSandboxes, speedy \in BOOLEAN : Construct(s, AppName(s), speedy)
    \/ \E s \in TrapSandboxes, p \in DescribedKeys : ProxyDescribe(s, p)

SpecDescribe == DescribeInit /\ [][DescribeNext]_vars

\* describe and define through one sandbox, with deletions on both objects
\* in between
DefineInit ==
    /\ inTest = FALSE
    /\ scope = "foo"
    /\ \E d \in HostShapes, e \in {Absent, DataDesc(0, TRUE, TRUE, TRUE)} :
          host = [HostWith("foo", d) EXCEPT !["sym"] = e]
    /\ InitCommon

DefinedKeys == {"foo", "sym"}
DefineShapes == {DataDesc(v, TRUE, TRUE, TRUE) : v \in Vals}

DefineNext ==
    \/ \E s \in TrapSandboxes, speedy \in BOOLEAN : Construct(s, AppName(s), speedy)
    \/ \E s \in TrapSandboxes : Inactive(s)
    \/ \E s \in TrapSandboxes, p \in DefinedKeys : ProxyDescribe(s, p)
    \/ \E s \in TrapSandboxes, p \in DefinedKeys, d \in DefineShapes : ProxyDefine(s, p, d)
    \/ \E s \in TrapSandboxes : ProxyDelete(s, scope)
    \/ HostDelete(scope)

SpecDefine == DefineInit /\ [][DefineNext]_vars

\* Sandbox A describes, defines and deletes foo while sandbox B reads and
\* describes it.
DefineTwoInit ==
    /\ inTest = FALSE
    /\ scope = "foo"
    /\ \E d \in {Absent, DataDesc(0, TRUE, TRUE, TRUE), DataDesc(0, FALSE, FALSE, TRUE),
                  AccessorDesc(0, TRUE, FALSE, TRUE)} : host = HostWith("foo", d)
    /\ InitCommon

DefineTwoNext ==
    \/ \E s \in ProxySandboxes, speedy \in BOOLEAN : Construct(s, AppName(s), speedy)
    \/ \E s \in ProxySandboxes : ProxyDescribe(s, scope)
    \/ \E d \in DefineShapes : ProxyDefine("A", scope, d)
    \/ ProxyDelete("A", scope)
    \/ ProxyGet("B", scope)

SpecDefineTwo == DefineTwoInit /\ [][DefineTwoNext]_vars

\* Multiplexed sandboxes built over the native global object or over
\* another global context, whose fetch and foo hold native functions, the
\* same one or two.
FetchInit ==
    /\ inTest = FALSE
    /\ scope = "foo"
    /\ \E f \in {NativeFn, OtherNativeFn}, g \in {NativeFn, OtherNativeFn} :
          host = [HostWith("foo", DataDesc(f, TRUE, TRUE, TRUE))
                    EXCEPT !["fetch"] = DataDesc(g, TRUE, TRUE, TRUE)]
    /\ nativeGlobal \in {GlobalContextRef, NativeGlobalRef}
    /\ InitObjects
    /\ LoaderIdle
    /\ singular = FALSE
    /\ appConfig = [a \in Apps |-> PlainConfig]

FetchKeys == {"foo", "fetch"}

FetchNext ==
    \/ \E s \in ProxySandboxes, speedy \in BOOLEAN : Construct(s, AppName(s), speedy)
    \/ \E s \in ProxySandboxes, f \in {NativeFn, OtherNativeFn} : ProxySet(s, scope, f)
    \/ \E s \in ProxySandboxes, p \in FetchKeys : ProxyGet(s, p)

SpecFetch == FetchInit /\ [][FetchNext]_vars

\* One sandbox of either kind, the multiplexed A or the diffing L, over a
\* host whose property foo has any shape; the app writes, reads, tests and
\* deletes foo and the symbol key sym while the sandbox is activated and
\* deactivated.
LatestKeys == {"foo", "sym"}

LatestInit ==
    /\ inTest = FALSE
    /\ scope = "foo"
    /\ \E d \in HostShapes : host = HostWith("foo", d)
    /\ InitCommon

LatestNext ==
    \/ \E speedy \in BOOLEAN : ~created["L"] /\ Construct("A", "app1", speedy)
    \/ Active("A")
    \/ Inactive("A")
    \/ \E p \in LatestKeys, v \in Vals : ProxySet("A", p, v)
    \/ \E p \in LatestKeys : ProxyGet("A", p)
    \/ \E p \in LatestKeys : ProxyHas("A", p)
    \/ \E p \in LatestKeys : ProxyDelete("A", p)
    \/ ~created["A"] /\ LegacyConstruct("L", "app1")
    \/ LegacyActive("L")
    \/ LegacyInactive("L")
    \/ \E p \in LatestKeys, v \in Vals : LegacySet("L", p, v)
    \/ \E p \in LatestKeys : LegacyGet("L", p)
    \/ \E p \in LatestKeys : LegacyHas("L", p)
    \/ \E p \in LatestKeys : LegacyDelete("L", p)

SpecLatest == LatestInit /\ [][LatestNext]_vars

\* One diffing sandbox L over the host.  A run uses one key: the string key
\* foo in any shape, or the symbol key sym.
LegacyInit ==
    /\ inTest = FALSE
    /\ \/ /\ scope = "foo"
          /\ \E d \in HostShapes : host = HostWith("foo", d)
       \/ /\ scope = "sym"
          /\ \E d \in {Absent, DataDesc(0, TRUE, TRUE, TRUE)} : host = HostWith("sym", d)
    /\ InitCommon

LegacyNext ==
    \/ LegacyConstruct("L", "app1")
    \/ LegacyActive("L")
    \/ LegacyInactive("L")
    \/ \E v \in Vals : LegacySet("L", scope, v)
    \/ \E v \in Vals : HostAssign(scope, v)
    \/ HostDelete(scope)

SpecLegacy == LegacyInit /\ [][LegacyNext]_vars

\* The diffing sandbox L with its defineProperty trap as well.
LegacyDefineNext ==
    \/ LegacyConstruct("L", "app1")
    \/ LegacyActive("L")
    \/ LegacyInactive("L")
    \/ \E v \in Vals : LegacySet("L", scope, v)
    \/ \E d \in DefineShapes : LegacyDefine("L", scope, d)

SpecLegacyDefine == LegacyInit /\ [][LegacyDefineNext]_vars

\* Two micro-apps with diffing sandboxes over a host; the loader's callers
\* load, mount and unmount them in any interleaving, with singular mode on
\* or off, each app with or without legacy render and a style isolation
\* option.
AppConfigs ==
    {PlainConfig,
     [legacyRender |-> TRUE, strictStyleIsolation |-> FALSE, scopedCSS |-> FALSE],
     [legacyRender |-> TRUE, strictStyleIsolation |-> TRUE, scopedCSS |-> FALSE],
     [legacyRender |-> TRUE, strictStyleIsolation |-> FALSE, scopedCSS |-> TRUE]}

\* the entry scripts of the apps export their lifecycles
LoaderExports == {22}

LoaderInit ==
    /\ inTest = FALSE
    /\ scope = "foo"
    /\ host = HostWith("foo", Absent)
    /\ InitSandboxes
    /\ LoaderIdle
    /\ singular \in BOOLEAN
    /\ appConfig \in [Apps -> AppConfigs]

LoaderNext ==
    \/ \E a \in Apps : LoadApp(a)
    \/ \E a \in Apps : ImportEntry(a)
    \/ \E a \in Apps : LoadSingularWait(a)
    \/ \E a \in Apps : WaitOver(a)
    \/ \E a \in Apps : LoadSetup(a)
    \/ \E a \in Apps, e \in LoaderExports : ExecScripts(a, e)
    \/ \E a \in Apps : StartMount(a)
    \/ \E a \in Apps : MountSingularWait(a)
    \/ \E a \in Apps : MountWrapperGetter(a)
    \/ \E a \in Apps : MountRender(a)
    \/ \E a \in Apps : MountSandbox(a)
    \/ \E a \in Apps : BeforeMount(a)
    \/ \E a \in Apps : Mount(a)
    \/ \E a \in Apps : RenderMounted(a)
    \/ \E a \in Apps : AfterMount(a)
    \/ \E a \in Apps : NewDeferred(a)
    \/ \E a \in Apps : StartUnmount(a)
    \/ \E a \in Apps : BeforeUnmount(a)
    \/ \E a \in Apps : Unmount(a)
    \/ \E a \in Apps : UnmountSandbox(a)
    \/ \E a \in Apps : AfterUnmount(a)
    \/ \E a \in Apps : RenderUnmounted(a)
    \/ \E a \in Apps : ResolveDeferred(a)

SpecLoader == LoaderInit /\ [][LoaderNext]_vars

\* Two micro-apps in singular mode whose unmount hooks may reject.  Loading,
\* mounting and unmounting an app are started by the router at its will;
\* every other step is the continuation of an awaited promise and runs
\* once it can.
HandshakeInit ==
    /\ inTest = FALSE
    /\ scope = "foo"
    /\ host = HostWith("foo", Absent)
    /\ InitSandboxes
    /\ LoaderIdle
    /\ singular = TRUE
    /\ appConfig = [a \in Apps |-> PlainConfig]

\* the continuations of app a
Continue(a) ==
    \/ ImportEntry(a)
    \/ LoadSingularWait(a)
    \/ WaitOver(a)
    \/ LoadSetup(a)
    \/ \E e \in LoaderExports : ExecScripts(a, e)
    \/ MountSingularWait(a)
    \/ MountWrapperGetter(a)
    \/ MountRender(a)
    \/ MountSandbox(a)
    \/ BeforeMount(a)
    \/ Mount(a)
    \/ RenderMounted(a)
    \/ AfterMount(a)
    \/ NewDeferred(a)
    \/ BeforeUnmount(a)
    \/ Unmount(a)
    \/ UnmountSandbox(a)
    \/ AfterUnmount(a)
    \/ RenderUnmounted(a)
    \/ ResolveDeferred(a)

HandshakeNext ==
    \/ \E a \in Apps : LoadApp(a)
    \/ \E a \in Apps : StartMount(a)
    \/ \E a \in Apps : StartUnmount(a)
    \/ \E a \in Apps : Continue(a)
    \/ \E a \in Apps : UnmountRejects(a)

HandshakeFairness == \A a \in Apps : WF_vars(Continue(a))

SpecHandshake == HandshakeInit /\ [][HandshakeNext]_vars /\ HandshakeFairness

\* loadApp of app1 over a host that has, or has not, a global named after
\* the app; while the entry script runs it writes lifecycle exports or
\* other objects to globals, the one with the empty name included, and it
\* exports any of them or nothing.
LifecyclesInit ==
    /\ inTest = FALSE
    /\ scope = "foo"
    /\ \E d \in {Absent, DataDesc(23, TRUE, TRUE, TRUE), DataDesc(InvalidExports, TRUE, TRUE, TRUE)} :
          host = HostWith("app1", d)
    /\ InitCommon

WrittenKeys == {"", "foo"}

LifecyclesNext ==
    \/ LoadApp("app1")
    \/ ImportEntry("app1")
    \/ LoadSingularWait("app1")
    \/ LoadSetup("app1")
    \/ \E p \in WrittenKeys, v \in {21, InvalidExports} :
          At("app1", "load", "execScripts") /\ LegacySet(SandboxOf("app1"), p, v)
    \/ \E e \in {22, InvalidExports, Undefined} : ExecScripts("app1", e)

SpecLifecycles == LifecyclesInit /\ [][LifecyclesNext]_vars

\* ================================================================ claims
\* the last step was a set trap accepted by the running multiplexed sandbox s
DidSet(s) == last.op = "set" /\ last.sb = s

\* C1 (as claimed): a write of a key outside the whitelist through A's
\* virtual global object, A and B both active, leaves what B reads for that
\* key unchanged.
C1_Isolation ==
    [][\A a \in ProxySandboxes, b \in ProxySandboxes, p \in Keys :
          (/\ a # b
           /\ DidSet(a)' /\ last'.key = p
           /\ ~InWhiteList(p)
           /\ created[b] /\ sandboxRunning[a] /\ sandboxRunning[b])
          => GetTrap(b, p)' = GetTrap(b, p)]_vars

\* C2 (as claimed): when the last active multiplexed sandbox is deactivated,
\* every whitelisted host property written since the sandboxes were
\* activated has the descriptor it had before they were activated.
C2_RestoreOnLastExit ==
    [][(/\ last'.op = "inactive"
        /\ sandboxRunning[last'.sb]
        /\ RunningProxies' = {})
       => \A p \in writtenSince : InWhiteList(p) => host'[p] = hostBefore[p]]_vars

\* the whitelisted properties of the host
WhitelistedProps(obj) == [p \in globalVariableWhiteList |-> obj[p]]

C7_CounterCountsRunning == activeSandboxCount = Cardinality(RunningProxies)

\* C8: after a scheduling tick the registry names no sandbox, and whenever
\* it names one a clear is scheduled for the tick that ends the turn.
C8_RegistryTurnScoped ==
    /\ last.op = "tick" => currentRunningApp = NoApp
    /\ currentRunningApp # NoApp => taskPending

\* C8 witness: the tick found the entry an access to a sandbox had left and
\* the registry is empty after it.
C8_Witness ==
    /\ last.op = "tick" /\ last.sb \in ProxySandboxes
    /\ currentRunningApp = NoApp /\ ~taskPending

SameAsBefore(obj, p) ==
    /\ HasOwnProperty(obj, p) = HasOwnProperty(hostBefore, p)
    /\ GetValue(obj, p) = GetValue(hostBefore, p)

\* deactivate() can put key p of the host back: the property is configurable
\* and, where an original value is recorded for it, the key is not a symbol
Restorable(obj, p) ==
    /\ IsPropConfigurable(obj, p)
    /\ IsString(p) \/ p \notin DOMAIN modifiedPropsOriginalValueMapInSandbox["L"]

C5_ReactivationReappliesEveryKey ==
    [][(last'.op = "legacyActive")
       => \A p \in writtenOk :
             GetValue(host', p) = currentUpdatedPropsValueMap["L"][p]]_vars

\* C5 (amended): the same for every key of the current map that is not a
\* symbol and whose host property is absent or configurable when activate()
\* runs; the other entries are not re-applied.
C5_ReactivationReappliesConfigurableStringKeys ==
    [][(last'.op = "legacyActive")
       => \A p \in DOMAIN currentUpdatedPropsValueMap["L"] :
             IF CanSetWindowProp(host, p)
             THEN GetValue(host', p) = currentUpdatedPropsValueMap["L"][p]
             ELSE host'[p] = host[p]]_vars

\* C5 witness: activate() has brought back the value of foo that
\* deactivate() had taken off the host.
C5_Witness ==
    /\ last.op = "legacyActive"
    /\ "foo" \in writtenOk
    /\ GetValue(hostBefore, "foo") # currentUpdatedPropsValueMap["L"]["foo"]
    /\ GetValue(host, "foo") = currentUpdatedPropsValueMap["L"]["foo"]

C10_LegacyInactiveSetIsNoOp ==
    [][(last'.op = "legacySetInactive")
       => /\ ~last'.threw
          /\ \A v \in Vals :
                LegacySetTrap(last'.sb, last'.key, v, GetValue(host, last'.key), TRUE).ok
          /\ UNCHANGED <<host, addedPropsMapInSandbox,
                         modifiedPropsOriginalValueMapInSandbox,
                         currentUpdatedPropsValueMap, latestSetProp>>]_vars

\* C10 witness: a write arrived at the deactivated sandbox for a key it had
\* written while it was active.
C10_Witness ==
    /\ last.op = "legacySetInactive"
    /\ ~sandboxRunning[last.sb]
    /\ last.key \in DOMAIN currentUpdatedPropsValueMap["L"]
    /\ latestSetProp[last.sb] = last.key

\* C11 (as claimed): a write of a whitelisted key that an active multiplexed
\* sandbox accepts puts the value on the host and not on the virtual object,
\* and the host and every sandbox over it read the written value.
C11_WhitelistWriteThrough ==
    [][\A s \in ProxySandboxes, v \in Vals :
          (/\ ProxySet(s, scope, v)
           /\ InWhiteList(scope) /\ sandboxRunning[s] /\ ~last'.threw)
          => /\ GetValue(host', scope) = v
             /\ fakeWindow' = fakeWindow
             /\ \A b \in ProxySandboxes : created[b] => GetTrap(b, scope)' = v]_vars

\* C12: a delete through a multiplexed sandbox's virtual global object, in
\* any state of the sandbox, leaves every own property of the host as it was
\* and removes at most the virtual object's own property for that key.
C12_DeleteLeavesHost ==
    [][(last'.op = "delete")
       => /\ host' = host
          /\ \A q \in Keys \ {last'.key} :
                fakeWindow'[last'.sb][q] = fakeWindow[last'.sb][q]]_vars

\* C12 witness: the delete has removed from the virtual object a key that
\* the host owns.
C12_Witness ==
    /\ last.op = "delete" /\ ~last.threw
    /\ HasOwnProperty(host, last.key)
    /\ ~HasOwnProperty(fakeWindow[last.sb], last.key)
    /\ latestSetProp[last.sb] = last.key
    /\ last.key \notin updatedValueSet[last.sb]

\* C13: in every state, whatever was written, a read of window, self or
\* globalThis, and of top or parent when the host is its own parent, through
\* a sandbox's virtual global object returns that sandbox's own virtual
\* global object and not the host global object.
C13_SelfReferencesStayInside ==
    \A s \in ProxySandboxes, p \in SelfKeys :
        (created[s] /\ (p \in {"top", "parent"} => IsOwnParent(host)))
        => GetTrap(s, p) = ProxyRef(s) /\ GetTrap(s, p) # GlobalContextRef

\* C13 witness: the sandbox has stored a written value under a self
\* reference of its virtual object and has been deactivated, and a read of
\* that key still returns the virtual global object.
C13_Witness ==
    /\ created["A"] /\ ~sandboxRunning["A"]
    /\ last.op = "get" /\ last.key = scope /\ scope \in SelfKeys
    /\ fakeWindow["A"][scope].value \in Vals
    /\ GetTrap("A", scope) = ProxyRef("A")

\* what sandbox s returns for a read of document
ReadDocument(s) == GetTrap(s, "document")

\* C14: a read of document through a sandbox returns the host document from
\* construction until patchDocument(doc) is called on that sandbox and the
\* most recently patched doc after it; patchDocument on one sandbox leaves
\* what another sandbox's read of document returns.
C14_DocumentFollowsPatch ==
    [][/\ \A s \in ProxySandboxes :
            (last'.op = "construct" /\ last'.sb = s) => ReadDocument(s)' = HostDocumentRef
       /\ \A s \in ProxySandboxes, doc \in Vals :
            PatchDocument(s, doc)
            => /\ ReadDocument(s)' = doc
               /\ \A b \in ProxySandboxes \ {s} : ReadDocument(b)' = ReadDocument(b)
       /\ \A s \in ProxySandboxes :
            (created[s] /\ last'.op # "patchDocument")
            => ReadDocument(s)' = ReadDocument(s)]_vars

\* C14 witness: A's document has been patched after B's, each sandbox reads
\* its own patched doc, and they differ.
C14_Witness ==
    /\ last.op = "patchDocument" /\ last.sb = "A"
    /\ created["B"]
    /\ ReadDocument("A") \in Vals /\ ReadDocument("B") \in Vals
    /\ ReadDocument("A") # ReadDocument("B")

\* C15: a read of a property that holds an eligible callable returns the
\* wrapper that every later read of it returns, the wrapper cached for a
\* callable never changes, and at most one wrapper is made per callable.
C15_BindingStability ==
    [][/\ \A s \in ProxySandboxes :
            (last'.op = "get" /\ last'.sb = s /\ created[s])
            => GetTrap(s, scope)' = GetTrap(s, scope)
       /\ \A f \in DOMAIN functionBoundedValueMap :
            /\ f \in DOMAIN functionBoundedValueMap'
            /\ functionBoundedValueMap'[f] = functionBoundedValueMap[f]
       /\ \A f \in Callables : wrappersMade'[f] <= 1]_vars

\* C15 witness: both sandboxes have read native functions, B last; two
\* callables have a wrapper each and B read the wrapper made earlier.
C15_Witness ==
    /\ last.op = "get" /\ last.sb = "B" /\ created["A"]
    /\ DOMAIN functionBoundedValueMap = {NativeFn, OtherNativeFn}
    /\ wrappersMade[NativeFn] = 1 /\ wrappersMade[OtherNativeFn] = 1
    /\ GetTrap("B", scope) = GetTrap("A", scope)
    /\ GetTrap("B", scope) \in {BoundValue(NativeFn, 0), BoundValue(OtherNativeFn, 0)}

\* sandbox s has just been constructed
Fresh(s) == last.op = "construct" /\ last.sb = s

\* describing key p through sandbox s reports the host's property as not
\* configurable, of the same kind and with the host's value
ReportedFaithfully(s, p) ==
    LET d == GetOwnPropertyDescriptorTrap(s, p).descriptor IN
    /\ d.kind = host[p].kind
    /\ ~d.configurable
    /\ d.value = host[p].value

\* C16 (as claimed): every own property of the host that is not
\* configurable when a sandbox is constructed is reported through the fresh
\* virtual global object as not configurable and with the host's value.
C16_NonConfigurableFidelity ==
    \A s \in ProxySandboxes, p \in Keys :
        (Fresh(s) /\ HasOwnProperty(host, p) /\ ~host[p].configurable)
        => ReportedFaithfully(s, p)

\* the keys createFakeWindow copies as they are
CopiedAsIs(p, speedy) ==
    IsString(p) /\ p \notin UnforgeableKeys /\ ~(p = "document" /\ speedy)

\* C16 (amended): the same holds of every string-named own property other
\* than top, parent, self, window and, for a sandbox constructed in speedy
\* mode, document.
C16_NonConfigurableFidelityOfCopiedKeys ==
    [][\A s \in ProxySandboxes, speedy \in BOOLEAN, p \in Keys :
          (/\ Construct(s, AppName(s), speedy)
           /\ CopiedAsIs(p, speedy)
           /\ HasOwnProperty(host, p) /\ ~host[p].configurable)
          => ReportedFaithfully(s, p)']_vars

\* C16 witness: a fresh sandbox over a host whose foo is a data property
\* that is not configurable; its virtual object owns the copy.
C16_Witness ==
    /\ Fresh("A")
    /\ host["foo"].kind = "data" /\ ~host["foo"].configurable
    /\ HasOwnProperty(fakeWindow["A"], "foo")
    /\ ReportedFaithfully("A", "foo")

\* the last step was a write through s that its set trap accepted while s
\* was active
AcceptedWrite(s) ==
    /\ last.op \in {"set", "legacySet"}
    /\ last.sb = s
    /\ ~last.threw

RunningDiffing == {s \in LegacySandboxes : created[s] /\ sandboxRunning[s]}

\* C18 (as claimed): in singular mode at most one diffing sandbox has its
\* running flag set at any instant, across any interleaving of loading,
\* mounting and unmounting of the micro-apps.
C18_AtMostOneDiffingRunning ==
    singular => Cardinality(RunningDiffing) <= 1

\* C19: in every mount sequence the sandbox has been mounted when the app's
\* mount hook runs; in every unmount sequence the app's unmount hook has run
\* when the sandbox is unmounted; the running flag of the app's sandbox is
\* set while either hook runs.
C19_SandboxAroundHooks ==
    [][\A a \in Apps :
          /\ (At(a, "mount", "mount") /\ Mount(a) /\ ~last'.threw)
                => /\ trace[a] = <<"mountSandbox">>
                   /\ sandboxRunning[SandboxOf(a)] /\ sandboxRunning'[SandboxOf(a)]
          /\ (At(a, "unmount", "unmount") /\ Unmount(a) /\ ~last'.threw)
                => /\ trace[a] = <<>>
                   /\ sandboxRunning[SandboxOf(a)] /\ sandboxRunning'[SandboxOf(a)]
          /\ (At(a, "unmount", "unmountSandbox") /\ UnmountSandbox(a))
                => trace[a] = <<"unmount">>]_vars

\* C19 witness: app1 has been mounted and its unmount sequence has just
\* deactivated its sandbox, after the app's unmount hook.
C19_Witness ==
    /\ last.op = "legacyInactive" /\ last.sb = "L"
    /\ trace["app1"] = <<"unmount", "unmountSandbox">>
    /\ ~sandboxRunning["L"]

\* app a combines legacy render with strictStyleIsolation or scoped CSS
Incompatible(a) ==
    /\ appConfig[a].legacyRender
    /\ appConfig[a].strictStyleIsolation \/ appConfig[a].scopedCSS

\* C20 (as claimed): loadApp of an app that combines legacy render with
\* strictStyleIsolation or with scoped CSS never returns and none of the
\* app's mount steps ever runs.
C20_IncompatibleOptionsFailWhileLoading ==
    \A a \in Apps :
        Incompatible(a) => ~Done(a, "load") /\ pc[a].seq \notin {"mount", "unmount"}

\* the registry entry of multiplexed sandbox s
RegistryEntry(s) == [name |-> name[s], window |-> s]

\* C21 (as claimed): immediately after a read, write, has or delete trap of
\* a running multiplexed sandbox the registry reports that sandbox.
C21_EveryTrapRegisters ==
    [][\A s \in ProxySandboxes :
          (/\ last'.op \in {"get", "set", "has", "delete"}
           /\ last'.sb = s
           /\ sandboxRunning[s])
          => currentRunningApp' = RegistryEntry(s)]_vars

\* C22 (as claimed): a write of a whitelisted key that sandbox A has already
\* written in its current activation leaves the recorded previous
\* descriptor of the key as it was.
C22_PrevDescriptorRecordedOnce ==
    [][\A p \in Keys :
          (/\ DidSet("A")' /\ last'.key = p
           /\ InWhiteList(p)
           /\ sandboxRunning["A"]
           /\ p \in writtenSince
           /\ p \in DOMAIN globalWhitelistPrevDescriptor["A"])
          => globalWhitelistPrevDescriptor'["A"][p] = globalWhitelistPrevDescriptor["A"][p]]_vars

\* C23: activate() of a multiplexed sandbox adds exactly one to the active
\* sandbox counter when the sandbox was inactive and leaves the counter as
\* it was when the sandbox was running; the sandbox is running afterwards.
C23_ActivateCountsOnce ==
    [][\A s \in ProxySandboxes :
          (last'.op = "active" /\ last'.sb = s /\ Active(s))
          => /\ activeSandboxCount' =
                   IF sandboxRunning[s] THEN activeSandboxCount ELSE activeSandboxCount + 1
             /\ sandboxRunning'[s]]_vars

\* C23 witness: B, deactivated earlier, has just been activated again while
\* A is running, and the counter is back at two.
C23_Witness ==
    /\ last.op = "active" /\ last.sb = "B"
    /\ sandboxRunning["A"] /\ sandboxRunning["B"]
    /\ activeSandboxCount = 2

\* C24 (as claimed): in a diffing sandbox the modified-original entry of a
\* key, once recorded, is never replaced, and it is recorded by the
\* sandbox's first effective write to the key with the value the host held
\* just before that write.  currentUpdatedPropsValueMap holds exactly the
\* keys the sandbox has written while running, so a key outside it has not
\* been written yet.
C24_ModifiedOriginalIsPreFirstWrite ==
    [][\A p \in Keys :
          LET m == modifiedPropsOriginalValueMapInSandbox["L"]
              n == modifiedPropsOriginalValueMapInSandbox'["L"]
          IN /\ p \in DOMAIN m => (p \in DOMAIN n /\ n[p] = m[p])
             /\ (p \notin DOMAIN m /\ p \in DOMAIN n)
                => /\ p \notin DOMAIN currentUpdatedPropsValueMap["L"]
                   /\ n[p] = GetValue(host, p)]_vars

\* C25: a define(K, d) through a multiplexed sandbox is applied to the host
\* object when the last describe(K) reported K's descriptor from the host
\* object, and to the virtual object when the last describe(K) reported it
\* from the virtual object or K was never described; the other object is
\* left as it was.
C25_DefineFollowsLastDescribe ==
    [][\A p \in Keys, d \in DefineShapes :
          (last'.op = "define" /\ last'.sb = "A" /\ last'.key = p /\ ProxyDefine("A", p, d))
          => IF p \in DOMAIN lastDescribed["A"] /\ lastDescribed["A"][p] = "globalContext"
             THEN /\ host' = DefineProperty(host, p, d).obj
                  /\ fakeWindow'["A"] = fakeWindow["A"]
             ELSE IF p \notin DOMAIN lastDescribed["A"] \/ lastDescribed["A"][p] = "target"
             THEN /\ fakeWindow'["A"] = DefineProperty(fakeWindow["A"], p, d).obj
                  /\ host' = host
             ELSE TRUE]_vars

\* C25 witness: foo was described from the host and a define has just
\* replaced the host's foo, the virtual object still being without foo.
C25_Witness ==
    /\ last.op = "define" /\ last.sb = "A" /\ last.key = "foo" /\ ~last.threw
    /\ "foo" \in DOMAIN lastDescribed["A"] /\ lastDescribed["A"]["foo"] = "globalContext"
    /\ host["foo"] \in DefineShapes
    /\ ~HasOwnProperty(fakeWindow["A"], "foo")

\* the keys a read can name: the keys the global objects can own and the
\* overridden keys they inherit
ReadKeys == Keys \cup OverriddenKeys

\* what C26 says a read of p through sandbox s returns
ClaimedRead(s, p) ==
    IF p \in OverriddenKeys
    THEN PrototypeValue(p)
    ELSE IF HasOwnProperty(fakeWindow[s], p) /\ p \notin propertiesWithGetter[s]
         THEN GetValue(fakeWindow[s], p)
         ELSE GetValue(host, p)

\* C26 (as claimed): for every key that is not a self reference, document or
\* eval, a read through a multiplexed sandbox returns the virtual object's
\* value when the virtual object has the key and the key is no accessor
\* recorded from the host at construction, and the host's current value
\* otherwise.
C26_ReadFromVirtualElseHost ==
    \A p \in ReadKeys \ (SelfKeys \cup {"document"}) :
        created["A"] => GetTrap("A", p) = ClaimedRead("A", p)

\* C26 (amended): the same for every key that is also neither hasOwnProperty
\* nor Symbol.unscopables, when the value read is not callable (a callable
\* goes through the binding layer).
C26_ReadFromVirtualElseHostOrdinaryKeys ==
    \A p \in Keys \ (SelfKeys \cup {"document"}) :
        (created["A"] /\ ClaimedRead("A", p) \notin Callables)
        => GetTrap("A", p) = ClaimedRead("A", p)

\* C26 witness: foo is a non-configurable accessor of the host that the
\* virtual object copied at construction with another value behind it, and
\* it has just been read.
C26_Witness ==
    /\ last.op = "get" /\ last.sb = "A" /\ last.key = "foo"
    /\ "foo" \in propertiesWithGetter["A"]
    /\ GetValue(fakeWindow["A"], "foo") # GetValue(host, "foo")

\* C27 (as claimed): the callable a read of fetch returns is bound to the
\* native global object, whatever global context the sandbox was built over
\* and whatever was read before, through any key and any sandbox.
C27_FetchBoundToNativeGlobal ==
    [][\A s \in ProxySandboxes :
          (ProxyGet(s, "fetch") /\ last'.sb = s /\ last'.key = "fetch")
          => LET returned == GetTrap(s, "fetch") IN
             /\ returned \in DOMAIN boundTo'
             /\ boundTo'[returned] = nativeGlobal]_vars

\* the always-visible keys
AlwaysVisible == {"window", "self", "globalThis", "hasOwnProperty", "requestAnimationFrame"}

\* C28: has(K) through a multiplexed sandbox is true exactly when K is an
\* always-visible key, or the virtual object has K, or the host has K; it is
\* true for every always-visible key, also when neither object has it.
C28_HasIsCachedOrVirtualOrHost ==
    created["A"]
    => /\ \A p \in Keys :
            HasTrap("A", p) <=> \/ p \in AlwaysVisible
                                \/ HasOwnProperty(fakeWindow["A"], p)
                                \/ HasOwnProperty(host, p)
       /\ \A p \in AlwaysVisible : HasTrap("A", p)

\* C28 witness: has(globalThis) has just been asked of a sandbox whose
\* virtual object and host both are without globalThis; and has(foo) is
\* false there.
C28_Witness ==
    /\ last.op = "has" /\ last.sb = "A" /\ last.key = "globalThis"
    /\ ~HasOwnProperty(fakeWindow["A"], "globalThis")
    /\ ~HasOwnProperty(host, "globalThis")
    /\ HasTrap("A", "globalThis")
    /\ ~HasTrap("A", "foo")

\* C29 (as claimed): the registry holds one entry and a registration
\* overwrites it: when the virtual global of a running sandbox t is read or
\* written right after that of another running sandbox s, in the same turn,
\* the registry reports t's name and t's virtual global, whatever the names
\* of the two sandboxes.
C29_LastAccessedSandboxIsReported ==
    [][\A s \in ProxySandboxes : \A t \in ProxySandboxes \ {s} :
          (/\ last.op \in {"get", "set"} /\ last.sb = s
           /\ last'.op \in {"get", "set"} /\ last'.sb = t
           /\ sandboxRunning[s] /\ sandboxRunning[t])
          => currentRunningApp' = RegistryEntry(t)]_vars

\* the sandbox of app1 and what it holds when the lookup starts
LookupSandbox == SandboxOf("app1")

\* C30 (as claimed): the lifecycle lookup of loadApp returns the script's
\* exports if they are valid lifecycle exports, else the value stored on the
\* sandbox global under latestSetProp if the sandbox has a latestSetProp and
\* that value is valid, else the global named after the app if that is valid,
\* and raises an error when none is valid.
C30_LookupOrder ==
    [][\A e \in ScriptExports :
          ExecScripts("app1", e)
          => LET latest == latestSetProp[LookupSandbox]
                 underLatest == IF latest = NoKey THEN Undefined ELSE GetValue(host, latest)
                 underName == GetValue(host, "app1")
                 found == IF e \in ValidExports THEN e
                          ELSE IF underLatest \in ValidExports THEN underLatest
                          ELSE IF underName \in ValidExports THEN underName
                          ELSE Undefined
             IN /\ lifecycles'["app1"] = found
                /\ (appError'["app1"] # NoError) <=> (found = Undefined)
                /\ (pc'["app1"] = Failed) <=> (found = Undefined)]_vars

\* C31 (as claimed): a write of a key outside the whitelist through the
\* virtual global object of a multiplexed sandbox, running or not, leaves
\* the host global object as it was: its keys, values and descriptors.
C31_IsolatedWriteLeavesHost ==
    [][\A p \in Keys \ globalVariableWhiteList : \A v \in Vals :
          ProxySet("A", p, v) => host' = host]_vars

\* C32 (as claimed): after a write K := v that a running multiplexed sandbox
\* reported as successful, K being outside the whitelist and none of the
\* keys the get trap answers itself, a read of K through the same virtual
\* global object returns v, whatever descriptor the host has for K.
C32_ReadYourWrites ==
    [][\A p \in Keys \ (globalVariableWhiteList \cup SelfKeys \cup {"document"}) :
       \A v \in Vals :
          (ProxySet("A", p, v) /\ sandboxRunning["A"] /\ SetTrap("A", p, v).ok)
          => GetTrap("A", p)' = v]_vars

\* what sandbox s shows of key p: what a read returns and what a describe
\* reports
ViewOf(s, p) ==
    [read |-> GetTrap(s, p), descriptor |-> GetOwnPropertyDescriptorTrap(s, p).descriptor]

\* C33 (as claimed): a define of a key outside the whitelist through
\* sandbox A, in any order with describe calls on the key, changes neither
\* the host global object nor what sandbox B reads or describes for the key.
C33_DefineStaysInside ==
    [][\A p \in Keys \ globalVariableWhiteList : \A d \in DefineShapes :
          ProxyDefine("A", p, d)
          => /\ host' = host
             /\ created["B"] => ViewOf("B", p)' = ViewOf("B", p)]_vars

\* C33 (amended): the same when the key was never described through A or
\* the last describe through A reported its descriptor from A's virtual
\* object.
C33_DefineStaysInsideUnlessDescribedFromHost ==
    [][\A p \in Keys \ globalVariableWhiteList : \A d \in DefineShapes :
          (/\ ProxyDefine("A", p, d)
           /\ p \in DOMAIN lastDescribed["A"] => lastDescribed["A"][p] = "target")
          => /\ host' = host
             /\ created["B"] => ViewOf("B", p)' = ViewOf("B", p)]_vars

\* C33 witness: A has just defined foo, never described through it, on its
\* virtual object while B exists; the host and B show another foo.
C33_Witness ==
    /\ last.op = "define" /\ last.sb = "A" /\ last.key = "foo" /\ ~last.threw
    /\ "foo" \notin DOMAIN lastDescribed["A"]
    /\ created["B"]
    /\ fakeWindow["A"]["foo"] \in DefineShapes
    /\ HasOwnProperty(host, "foo")
    /\ ViewOf("B", "foo").read # ViewOf("A", "foo").read

\* C34 (as claimed): the deactivation of a running multiplexed sandbox that
\* wrote no whitelisted key since it was activated leaves every whitelisted
\* property of the host as it was, whatever the sandbox wrote and restored
\* in an earlier activation and whatever the host did to the property since.
C34_IdleDeactivationLeavesWhitelist ==
    [][(/\ Inactive("A")
        /\ sandboxRunning["A"]
        /\ writtenSince \cap globalVariableWhiteList = {})
       => \A p \in globalVariableWhiteList : host'[p] = host[p]]_vars

\* C35 (as claimed): while the diffing sandbox is inactive, a set or a
\* defineProperty through its virtual global object changes neither the host
\* global object nor any of the three diff maps.
C35_InactiveLegacyLeavesHostAndMaps ==
    [][(/\ ~sandboxRunning["L"]
        /\ \E p \in Keys :
              \/ \E v \in Vals : LegacySet("L", p, v)
              \/ \E d \in DefineShapes : LegacyDefine("L", p, d))
       => UNCHANGED <<host, legacyVars>>]_vars

\* C36 (as claimed): in a diffing sandbox the added map and the
\* modified-original map never share a key.
C36_AddedAndModifiedDisjoint ==
    DOMAIN addedPropsMapInSandbox["L"]
        \cap DOMAIN modifiedPropsOriginalValueMapInSandbox["L"] = {}

\* C37 (as claimed): the clear scheduled by an access to sandbox s never
\* removes the entry of a later access to another sandbox t: an access to a
\* running t while the clear that s scheduled is still pending leaves t's
\* entry in the registry and the clear pending, and until the next tick no
\* step other than an access changes the registry.
C37_PendingClearKeepsLaterEntry ==
    [][/\ \A s \in ProxySandboxes : \A t \in ProxySandboxes \ {s} :
             (/\ taskPending /\ currentRunningApp = RegistryEntry(s)
              /\ sandboxRunning[t]
              /\ last'.op \in {"get", "set", "delete"} /\ last'.sb = t)
             => /\ currentRunningApp' = RegistryEntry(t)
                /\ taskPending'
       /\ last'.op \notin {"get", "set", "delete", "tick"}
             => currentRunningApp' = currentRunningApp]_vars

\* C38 (as claimed): in singular mode a load or a mount that waits for the
\* previous app's unmount goes on at last once that app's unmount sequence
\* has been started, also when a step of that sequence fails.
C38_WaitEndsOnceUnmountStarted ==
    \A a \in Apps : \A b \in Apps \ {a} :
        (waitingOn[a] # 0 /\ pc[b].seq = "unmount") ~> (waitingOn[a] = 0)

====
